---- MODULE Spec2Model ----
(***************************************************************************)
(* A model of the Aeron client conductor (ClientConductor.cpp): the three  *)
(* registration tables, the handles the application holds, the two linger  *)
(* lists, and every synchronous operation and driver event handler; and of *)
(* the driver's distinct error log (aeron_distinct_error_log.c): its       *)
(* buffer, its observations array, the threads recording into it and a     *)
(* reader, statement by statement; of the many-to-one ring buffer, its     *)
(* producers and its consumer; and of the driver context                   *)
(* (aeron_driver_context.c/.h): its configuration from the environment and *)
(* the layout of the CnC file.                                             *)
(***************************************************************************)
EXTENDS Integers, Sequences, FiniteSets, TLC

\* ------------------------------------------------------------------ bounds

\* Registration ids the driver proxy hands out before the add_* calls stop.
MaxRegistrations == 2
\* The epoch clock runs over 0..MaxTime.
MaxTime == 2
\* Longest linger list (log buffers, image arrays) the model follows.
MaxLinger == 2
\* Calls of aeron_distinct_error_log_record the model follows.
MaxCalls == 3
\* The error log's clock runs over 1..MaxClock.
MaxClock == 2
\* Calls of write the model follows when the arguments are free.
MaxWrites == 4
\* Records each producer writes when producers run at once.
RecordsPerProducer == 2

\* ------------------------------------------------------- configuration

m_driverTimeoutMs == 1
m_resourceLingerTimeoutMs == 1

\* aeron_distinct_error_log_init(log, buffer, buffer_size, ...): room for one
\* entry of the longest text and one short entry.
buffer_capacity == 320
AERON_MAX_PATH == 256
AERON_ERROR_LOG_HEADER_LENGTH == 24
AERON_ERROR_LOG_RECORD_ALIGNMENT == 8

\* testManyToOneRingBuffer.cpp: CAPACITY and MSG_TYPE_ID.
CAPACITY == 1024
MSG_TYPE_ID == 101
\* RecordDescriptor and RingBufferDescriptor: the record header holds three
\* int32 and is a multiple of the alignment, the alignment is a multiple of
\* 8 and no less than a padding record's header; the trailer holds four
\* counters, each on a cache line of its own.
ALIGNMENT == 16
HEADER_LENGTH == 16
TRAILER_LENGTH == 256
PADDING_MSG_TYPE_ID == -1

\* ------------------------------------------------------------ input sets

Channels == {"aeron:ipc", "aeron:udp"}
Streams == {1001, 2002}
SessionIds == {7}
CounterIds == {3}
LogFileNames == {"/path"}
SourceIdentities == {"src"}
ErrorCodes == {42}
ErrorMessages == {"channel unknown"}
ImageCorrelationIds == {99}
RegistrationIds == 1..MaxRegistrations
\* The log a publication is coalesced onto is that of the first registration.
OriginalRegistrationIds == {1}

AWAITING_MEDIA_DRIVER == "AWAITING_MEDIA_DRIVER"
REGISTERED_MEDIA_DRIVER == "REGISTERED_MEDIA_DRIVER"
ERRORED_MEDIA_DRIVER == "ERRORED_MEDIA_DRIVER"

VARIABLES
    m_publications,           \* std::vector<PublicationStateDefn>
    m_exclusivePublications,  \* std::vector<ExclusivePublicationStateDefn>
    m_subscriptions,          \* std::vector<SubscriptionStateDefn>
    m_lingeringLogBuffers,    \* std::vector<LogBuffersLingerDefn>
    m_lingeringImageArrays,   \* std::vector<ImageArrayLingerDefn>
    m_driverActive,           \* driver liveness as verifyDriverIsActive() sees it
    nextCorrelationId,        \* the driver proxy's next registration id
    now,                      \* m_epochClock()
    publications,             \* live Publication / ExclusivePublication objects, by registration id
    subscriptions,            \* live Subscription objects, by registration id
    ret                       \* the last operation: its arguments, its outcome, what it did in order

VARIABLES
    buffer,            \* log->buffer: the entry written at each offset
    next_offset,       \* log->next_offset
    observations,      \* observations_pimpl->observations (<<>> is NULL)
    num_observations,  \* observations_pimpl->num_observations
    mutex,             \* log->mutex: the thread holding it, 0 when free
    lingered_arrays,   \* the arrays handed to log->linger_resource, in order
    clock,             \* log->clock()
    pc,                \* where each recording thread is
    local,             \* each recording thread's arguments and locals
    calls,             \* the calls of record that have returned, in order
    reader             \* a caller of aeron_error_log_read: its locals, what its sink got

conductor == <<m_publications, m_exclusivePublications, m_subscriptions,
               m_lingeringLogBuffers, m_lingeringImageArrays, m_driverActive,
               nextCorrelationId, now, publications, subscriptions, ret>>

VARIABLES
    capacity,          \* the ring buffer's capacity; 0 before it is constructed
    tail,              \* the producers' tail counter of the trailer
    head,              \* the consumer's head counter of the trailer
    consumer_heartbeat,\* the consumer heartbeat of the trailer
    region,            \* the data region: the record at each offset
    producers,         \* where each producer is in write, and its locals
    consumer,          \* where the consumer is in read, its locals, what its handler got
    written,           \* per producer, the messages write has returned true for, in order
    outcome            \* the last ring-buffer call that returned, and its result

VARIABLES
    environment,       \* getenv: the value of each variable, NULL when unset
    context,           \* aeron_driver_context_t, NULL before aeron_driver_context_init
    metadata,          \* aeron_cnc_metadata_t at the start of the CnC file
    answer             \* the last call of a function of the driver context, and its result

errorLog == <<buffer, next_offset, observations, num_observations, mutex, lingered_arrays,
              clock, pc, local, calls, reader>>

ringBuffer == <<capacity, tail, head, consumer_heartbeat, region, producers, consumer,
                written, outcome>>

driverContext == <<environment, context, metadata, answer>>

vars == <<m_publications, m_exclusivePublications, m_subscriptions,
          m_lingeringLogBuffers, m_lingeringImageArrays, m_driverActive,
          nextCorrelationId, now, publications, subscriptions, ret,
          buffer, next_offset, observations, num_observations, mutex, lingered_arrays,
          clock, pc, local, calls, reader,
          capacity, tail, head, consumer_heartbeat, region, producers, consumer,
          written, outcome,
          environment, context, metadata, answer>>

tables == <<m_publications, m_exclusivePublications, m_subscriptions>>
lingering == <<m_lingeringLogBuffers, m_lingeringImageArrays>>
handles == <<publications, subscriptions>>

\* ------------------------------------------------------------- values

\* A LogBuffers object: the file it maps, and the registration and the image
\* correlation id (0 for a publication) it was mapped for, which tell two
\* mappings of one file apart.
NoBuffers == [file |-> "", registrationId |-> 0, correlationId |-> 0]

LogBuffers(logFileName, registrationId, correlationId) ==
    [file |-> logFileName, registrationId |-> registrationId,
     correlationId |-> correlationId]

NoImage ==
    [sessionId |-> 0, correlationId |-> 0, subscriptionRegistrationId |-> 0,
     sourceIdentity |-> "", subscriberPosition |-> 0, logBuffers |-> NoBuffers,
     closed |-> FALSE]

Image(sessionId, correlationId, registrationId, sourceIdentity, position, logBuffers) ==
    [sessionId |-> sessionId, correlationId |-> correlationId,
     subscriptionRegistrationId |-> registrationId,
     sourceIdentity |-> sourceIdentity, subscriberPosition |-> position,
     logBuffers |-> logBuffers, closed |-> FALSE]

\* One thing an operation did: a command to the driver, a user callback, a
\* change of an image set, an entry put on a linger list.
Ev(name, id, image) == [ev |-> name, id |-> id, image |-> image]

Ret(op, channel, streamId, id, result, ex, exCode, exMsg, trace) ==
    [op |-> op, channel |-> channel, streamId |-> streamId, id |-> id,
     result |-> result, ex |-> ex, exCode |-> exCode, exMsg |-> exMsg,
     trace |-> trace]

Returned(op, channel, streamId, id, result, trace) ==
    Ret(op, channel, streamId, id, result, "", 0, "", trace)

DriverTimeoutException(op, channel, streamId, id) ==
    Ret(op, channel, streamId, id, 0, "DriverTimeoutException", 0, "", <<>>)

RegistrationException(op, id, errorCode, errorMessage) ==
    Ret(op, "", 0, id, 0, "RegistrationException", errorCode, errorMessage, <<>>)

PublicationStateDefn(channel, registrationId, streamId, t) ==
    [m_channel |-> channel, m_registrationId |-> registrationId,
     m_streamId |-> streamId, m_timeOfRegistration |-> t,
     m_status |-> AWAITING_MEDIA_DRIVER, m_sessionId |-> -1,
     m_positionLimitCounterId |-> -1, m_buffers |-> NoBuffers,
     m_originalRegistrationId |-> -1, m_errorCode |-> -1, m_errorMessage |-> "",
     m_publication |-> 0]

SubscriptionStateDefn(channel, registrationId, streamId, t) ==
    [m_channel |-> channel, m_registrationId |-> registrationId,
     m_streamId |-> streamId, m_timeOfRegistration |-> t,
     m_status |-> AWAITING_MEDIA_DRIVER, m_errorCode |-> -1, m_errorMessage |-> "",
     m_subscriptionCache |-> 0, m_subscription |-> 0]

\* A Publication built with the stream id in the place of the session id.
PublicationSwapped(state) ==
    [channel |-> state.m_channel, registrationId |-> state.m_registrationId,
     originalRegistrationId |-> state.m_originalRegistrationId,
     streamId |-> state.m_sessionId, sessionId |-> state.m_streamId,
     publicationLimit |-> state.m_positionLimitCounterId,
     buffers |-> state.m_buffers, closed |-> FALSE]

\* The Publication object findPublication builds from a record.
Publication(state) ==
    [channel |-> state.m_channel, registrationId |-> state.m_registrationId,
     originalRegistrationId |-> state.m_originalRegistrationId,
     streamId |-> state.m_streamId, sessionId |-> state.m_sessionId,
     publicationLimit |-> state.m_positionLimitCounterId,
     buffers |-> state.m_buffers, closed |-> FALSE]

\* The Subscription object onOperationSuccess builds: no image array yet
\* (array 0 is nullptr; an array is told apart by the subscription that made
\* it), held by the record's cache and not yet by the application.
Subscription(registrationId, channel, streamId) ==
    [registrationId |-> registrationId, channel |-> channel, streamId |-> streamId,
     images |-> <<>>, array |-> 0, held |-> FALSE]

\* ------------------------------------------------------------- helpers

Range(s) == {s[i] : i \in 1..Len(s)}

Min(S) == CHOOSE n \in S : \A m \in S : n <= m

\* std::find_if over a table with a predicate on the registration id: the
\* index of the first match, 0 for end().
FindByRegistrationId(table, registrationId) ==
    LET hits == {i \in 1..Len(table) : table[i].m_registrationId = registrationId}
    IN IF hits = {} THEN 0 ELSE Min(hits)

\* vector::erase(it)
Erase(table, i) == SubSeq(table, 1, i - 1) \o SubSeq(table, i + 1, Len(table))

\* weak_ptr::lock(): the object's id while it is alive, 0 (empty) otherwise.
Lock(weak, objects) == IF weak \in DOMAIN objects THEN weak ELSE 0

Without(objects, id) == [h \in DOMAIN objects \ {id} |-> objects[h]]

With(objects, id, object) ==
    [h \in DOMAIN objects \cup {id} |-> IF h = id THEN object ELSE objects[h]]

\* ------------------------------------------------------- linger lists

LogBuffersLingerDefn(t, logBuffers) ==
    [m_timeOfLastStatusChange |-> t, m_logBuffers |-> logBuffers]

ImageArrayLingerDefn(t, array) ==
    [m_timeOfLastStatusChange |-> t, m_array |-> array]

\* The two linger lists and the trace of an operation under way.
Lingering(logBuffers, arrays, trace) ==
    [logBuffers |-> logBuffers, arrays |-> arrays, trace |-> trace]

\* lingerResource(now, logBuffers)
LingerLogBuffers(l, t, image) ==
    Lingering(Append(l.logBuffers, LogBuffersLingerDefn(t, image.logBuffers)),
              l.arrays,
              Append(l.trace, Ev("lingerLogBuffers", 0, image)))

\* lingerResource(now, array)
LingerImageArray(l, t, array) ==
    Lingering(l.logBuffers,
              Append(l.arrays, ImageArrayLingerDefn(t, array)),
              Append(l.trace, Ev("lingerImageArray", array, NoImage)))

\* lingerResources without its loop over the images.
LingerResourcesArrayOnly(l, t, images, array) ==
    IF array = 0 THEN l ELSE LingerImageArray(l, t, array)

\* lingerResources(now, images, imagesLength): the log buffers of every image
\* in order, then the array unless it is nullptr.
LingerResources(l, t, images, array) ==
    LET each == Lingering(
                    l.logBuffers \o [i \in 1..Len(images) |->
                        LogBuffersLingerDefn(t, images[i].logBuffers)],
                    l.arrays,
                    l.trace \o [i \in 1..Len(images) |->
                        Ev("lingerLogBuffers", 0, images[i])])
    IN IF array = 0 THEN each ELSE LingerImageArray(each, t, array)

\* The model follows linger lists up to MaxLinger entries.
WithinLinger(l) ==
    Len(l.logBuffers) <= MaxLinger /\ Len(l.arrays) <= MaxLinger

\* ------------------------------------------------ driver liveness, proxy

\* verifyDriverIsActive(): throws DriverTimeoutException when the driver is
\* not active.
DriverIsActive == m_driverActive

\* verifyDriverIsActiveViaErrorHandler(): reports to the error handler and
\* lets the release go on.
VerifyDriverIsActiveViaErrorHandler ==
    IF m_driverActive THEN <<>> ELSE <<Ev("errorHandler", 0, NoImage)>>

\* m_driverProxy.addPublication / addExclusivePublication / addSubscription:
\* writes the command and returns its correlation id.
CanRegister == nextCorrelationId <= MaxRegistrations

\* ------------------------------------------------- synchronous operations

\* addPublication comparing the stream id with the wrong field of the entry.
SamePublicationWrongField(entry, channel, streamId) ==
    streamId = entry.m_sessionId /\ channel = entry.m_channel

\* The predicate of addPublication's find_if.
SamePublication(entry, channel, streamId) ==
    streamId = entry.m_streamId /\ channel = entry.m_channel

FindSamePublication(channel, streamId) ==
    LET hits == {i \in 1..Len(m_publications) :
                    SamePublication(m_publications[i], channel, streamId)}
    IN IF hits = {} THEN 0 ELSE Min(hits)

AddPublication(channel, streamId) ==
    IF ~DriverIsActive
    THEN /\ ret' = DriverTimeoutException("addPublication", channel, streamId, 0)
         /\ UNCHANGED <<tables, lingering, handles, m_driverActive, nextCorrelationId, now>>
    ELSE LET it == FindSamePublication(channel, streamId)
         IN IF it = 0
            THEN /\ CanRegister
                 /\ m_publications' = Append(m_publications,
                        PublicationStateDefn(channel, nextCorrelationId, streamId, now))
                 /\ nextCorrelationId' = nextCorrelationId + 1
                 /\ ret' = Returned("addPublication", channel, streamId, 0, nextCorrelationId,
                                    <<Ev("AddPublication", nextCorrelationId, NoImage)>>)
                 /\ UNCHANGED <<m_exclusivePublications, m_subscriptions, lingering,
                                handles, m_driverActive, now>>
            ELSE /\ ret' = Returned("addPublication", channel, streamId, 0,
                                    m_publications[it].m_registrationId, <<>>)
                 /\ UNCHANGED <<tables, lingering, handles, m_driverActive,
                                nextCorrelationId, now>>

\* The deadline test with >= for >.
DriverTimeoutExpiredEarly(t, state) ==
    t >= state.m_timeOfRegistration + m_driverTimeoutMs

\* The deadline test of the find operations.
DriverTimeoutExpired(t, state) ==
    t > state.m_timeOfRegistration + m_driverTimeoutMs

\* A find that builds the handle and forgets to store the weak reference.
FindPublicationInNoWeak(op, table, registrationId) ==
    LET it == FindByRegistrationId(table, registrationId)
        same(r) == [table |-> table, publications |-> publications, ret |-> r]
    IN IF it = 0
       THEN same(Returned(op, "", 0, registrationId, 0, <<>>))
       ELSE LET state == table[it]
                pub == Lock(state.m_publication, publications)
            IN IF pub # 0
               THEN same(Returned(op, "", 0, registrationId, pub, <<>>))
               ELSE CASE state.m_status = AWAITING_MEDIA_DRIVER ->
                           IF DriverTimeoutExpired(now, state)
                           THEN same(DriverTimeoutException(op, "", 0, registrationId))
                           ELSE same(Returned(op, "", 0, registrationId, 0, <<>>))
                      [] state.m_status = REGISTERED_MEDIA_DRIVER ->
                           [table |-> table,
                            publications |-> With(publications, state.m_registrationId,
                                                  Publication(state)),
                            ret |-> Returned(op, "", 0, registrationId, state.m_registrationId,
                                <<Ev("make_shared", state.m_registrationId, NoImage)>>)]
                      [] state.m_status = ERRORED_MEDIA_DRIVER ->
                           same(RegistrationException(op, registrationId,
                                    state.m_errorCode, state.m_errorMessage))

\* findPublication and findExclusivePublication, which differ in the table
\* alone: the table, the live handles and the outcome after the call.
FindPublicationIn(op, table, registrationId) ==
    LET it == FindByRegistrationId(table, registrationId)
        same(r) == [table |-> table, publications |-> publications, ret |-> r]
    IN IF it = 0
       THEN same(Returned(op, "", 0, registrationId, 0, <<>>))
       ELSE LET state == table[it]
                pub == Lock(state.m_publication, publications)
            IN IF pub # 0
               THEN same(Returned(op, "", 0, registrationId, pub, <<>>))
               ELSE CASE state.m_status = AWAITING_MEDIA_DRIVER ->
                           IF DriverTimeoutExpired(now, state)
                           THEN same(DriverTimeoutException(op, "", 0, registrationId))
                           ELSE same(Returned(op, "", 0, registrationId, 0, <<>>))
                      [] state.m_status = REGISTERED_MEDIA_DRIVER ->
                           [table |-> [table EXCEPT ![it].m_publication = state.m_registrationId],
                            publications |-> With(publications, state.m_registrationId,
                                                  Publication(state)),
                            ret |-> Returned(op, "", 0, registrationId, state.m_registrationId,
                                <<Ev("make_shared", state.m_registrationId, NoImage)>>)]
                      [] state.m_status = ERRORED_MEDIA_DRIVER ->
                           same(RegistrationException(op, registrationId,
                                    state.m_errorCode, state.m_errorMessage))

FindPublication(registrationId) ==
    LET r == FindPublicationIn("findPublication", m_publications, registrationId)
    IN /\ m_publications' = r.table
       /\ publications' = r.publications
       /\ ret' = r.ret
       /\ UNCHANGED <<m_exclusivePublications, m_subscriptions, lingering, subscriptions,
                      m_driverActive, nextCorrelationId, now>>

\* A release that erases begin() instead of the entry it found.
ReleasePublicationInFirst(op, table, registrationId) ==
    LET it == FindByRegistrationId(table, registrationId)
        check == VerifyDriverIsActiveViaErrorHandler
    IN IF it # 0
       THEN [table |-> Erase(table, 1),
             ret |-> Returned(op, "", 0, registrationId, 0,
                        Append(check, Ev("RemovePublication", registrationId, NoImage)))]
       ELSE [table |-> table, ret |-> Returned(op, "", 0, registrationId, 0, check)]

\* releasePublication and releaseExclusivePublication on their table.
ReleasePublicationIn(op, table, registrationId) ==
    LET it == FindByRegistrationId(table, registrationId)
        check == VerifyDriverIsActiveViaErrorHandler
    IN IF it # 0
       THEN [table |-> Erase(table, it),
             ret |-> Returned(op, "", 0, registrationId, 0,
                        Append(check, Ev("RemovePublication", registrationId, NoImage)))]
       ELSE [table |-> table, ret |-> Returned(op, "", 0, registrationId, 0, check)]

ReleasePublication(registrationId) ==
    LET r == ReleasePublicationIn("releasePublication", m_publications, registrationId)
    IN /\ m_publications' = r.table
       /\ ret' = r.ret
       /\ UNCHANGED <<m_exclusivePublications, m_subscriptions, lingering, handles,
                      m_driverActive, nextCorrelationId, now>>

\* An addExclusivePublication that looks for a record of the channel and
\* stream first, as addPublication does.
AddExclusivePublicationDeduplicating(channel, streamId) ==
    LET hits == {i \in 1..Len(m_exclusivePublications) :
                    SamePublication(m_exclusivePublications[i], channel, streamId)}
    IN IF ~DriverIsActive
       THEN /\ ret' = DriverTimeoutException("addExclusivePublication", channel, streamId, 0)
            /\ UNCHANGED <<tables, lingering, handles, m_driverActive, nextCorrelationId, now>>
       ELSE IF hits # {}
       THEN /\ ret' = Returned("addExclusivePublication", channel, streamId, 0,
                               m_exclusivePublications[Min(hits)].m_registrationId, <<>>)
            /\ UNCHANGED <<tables, lingering, handles, m_driverActive, nextCorrelationId, now>>
       ELSE /\ CanRegister
            /\ m_exclusivePublications' = Append(m_exclusivePublications,
                   PublicationStateDefn(channel, nextCorrelationId, streamId, now))
            /\ nextCorrelationId' = nextCorrelationId + 1
            /\ ret' = Returned("addExclusivePublication", channel, streamId, 0,
                               nextCorrelationId,
                               <<Ev("AddExclusivePublication", nextCorrelationId, NoImage)>>)
            /\ UNCHANGED <<m_publications, m_subscriptions, lingering, handles,
                           m_driverActive, now>>

AddExclusivePublication(channel, streamId) ==
    IF ~DriverIsActive
    THEN /\ ret' = DriverTimeoutException("addExclusivePublication", channel, streamId, 0)
         /\ UNCHANGED <<tables, lingering, handles, m_driverActive, nextCorrelationId, now>>
    ELSE /\ CanRegister
         /\ m_exclusivePublications' = Append(m_exclusivePublications,
                PublicationStateDefn(channel, nextCorrelationId, streamId, now))
         /\ nextCorrelationId' = nextCorrelationId + 1
         /\ ret' = Returned("addExclusivePublication", channel, streamId, 0, nextCorrelationId,
                            <<Ev("AddExclusivePublication", nextCorrelationId, NoImage)>>)
         /\ UNCHANGED <<m_publications, m_subscriptions, lingering, handles,
                        m_driverActive, now>>

FindExclusivePublication(registrationId) ==
    LET r == FindPublicationIn("findExclusivePublication", m_exclusivePublications,
                               registrationId)
    IN /\ m_exclusivePublications' = r.table
       /\ publications' = r.publications
       /\ ret' = r.ret
       /\ UNCHANGED <<m_publications, m_subscriptions, lingering, subscriptions,
                      m_driverActive, nextCorrelationId, now>>

ReleaseExclusivePublication(registrationId) ==
    LET r == ReleasePublicationIn("releaseExclusivePublication", m_exclusivePublications,
                                  registrationId)
    IN /\ m_exclusivePublications' = r.table
       /\ ret' = r.ret
       /\ UNCHANGED <<m_publications, m_subscriptions, lingering, handles,
                      m_driverActive, nextCorrelationId, now>>

AddSubscription(channel, streamId) ==
    IF ~DriverIsActive
    THEN /\ ret' = DriverTimeoutException("addSubscription", channel, streamId, 0)
         /\ UNCHANGED <<tables, lingering, handles, m_driverActive, nextCorrelationId, now>>
    ELSE /\ CanRegister
         /\ m_subscriptions' = Append(m_subscriptions,
                SubscriptionStateDefn(channel, nextCorrelationId, streamId, now))
         /\ nextCorrelationId' = nextCorrelationId + 1
         /\ ret' = Returned("addSubscription", channel, streamId, 0, nextCorrelationId,
                            <<Ev("AddSubscription", nextCorrelationId, NoImage)>>)
         /\ UNCHANGED <<m_publications, m_exclusivePublications, lingering, handles,
                        m_driverActive, now>>

\* A findSubscription that leaves the cache slot as it is.
FindSubscriptionInKeepsCache(op, table, registrationId) ==
    LET it == FindByRegistrationId(table, registrationId)
    IN IF it = 0
       THEN [table |-> table, subscriptions |-> subscriptions,
             ret |-> Returned(op, "", 0, registrationId, 0, <<>>)]
       ELSE LET state == table[it]
                sub == Lock(state.m_subscription, subscriptions)
            IN IF sub = 0 /\ state.m_status = AWAITING_MEDIA_DRIVER
                  /\ DriverTimeoutExpired(now, state)
               THEN [table |-> table, subscriptions |-> subscriptions,
                     ret |-> DriverTimeoutException(op, "", 0, registrationId)]
               ELSE IF sub = 0 /\ state.m_status = ERRORED_MEDIA_DRIVER
               THEN [table |-> table, subscriptions |-> subscriptions,
                     ret |-> RegistrationException(op, registrationId,
                                 state.m_errorCode, state.m_errorMessage)]
               ELSE [table |-> table,
                     subscriptions |-> IF sub = 0 THEN subscriptions
                                       ELSE [subscriptions EXCEPT ![sub].held = TRUE],
                     ret |-> Returned(op, "", 0, registrationId, sub, <<>>)]

\* findSubscription: the table, the live handles and the outcome after the
\* call. The cache slot is reset before the status is looked at; a handle that
\* is returned is from then on held by the application.
FindSubscriptionIn(op, table, registrationId) ==
    LET it == FindByRegistrationId(table, registrationId)
    IN IF it = 0
       THEN [table |-> table, subscriptions |-> subscriptions,
             ret |-> Returned(op, "", 0, registrationId, 0, <<>>)]
       ELSE LET state == table[it]
                sub == Lock(state.m_subscription, subscriptions)
                reset == [table EXCEPT ![it].m_subscriptionCache = 0]
            IN IF sub = 0 /\ state.m_status = AWAITING_MEDIA_DRIVER
                  /\ DriverTimeoutExpired(now, state)
               THEN [table |-> reset, subscriptions |-> subscriptions,
                     ret |-> DriverTimeoutException(op, "", 0, registrationId)]
               ELSE IF sub = 0 /\ state.m_status = ERRORED_MEDIA_DRIVER
               THEN [table |-> reset, subscriptions |-> subscriptions,
                     ret |-> RegistrationException(op, registrationId,
                                 state.m_errorCode, state.m_errorMessage)]
               ELSE [table |-> reset,
                     subscriptions |-> IF sub = 0 THEN subscriptions
                                       ELSE [subscriptions EXCEPT ![sub].held = TRUE],
                     ret |-> Returned(op, "", 0, registrationId, sub, <<>>)]

FindSubscription(registrationId) ==
    LET r == FindSubscriptionIn("findSubscription", m_subscriptions, registrationId)
    IN /\ m_subscriptions' = r.table
       /\ subscriptions' = r.subscriptions
       /\ ret' = r.ret
       /\ UNCHANGED <<m_publications, m_exclusivePublications, lingering, publications,
                      m_driverActive, nextCorrelationId, now>>

\* A Subscription object dies with its last strong reference: the
\* application's, or the cache slot of a record.
Cached(table, sub) == \E i \in 1..Len(table) : table[i].m_subscriptionCache = sub

Surviving(table, subs) ==
    [h \in {x \in DOMAIN subs : subs[x].held \/ Cached(table, x)} |-> subs[h]]

\* A releaseSubscription that lingers the images before it erases the record.
ReleaseSubscriptionInLingersFirst(table, registrationId, images, array) ==
    LET it == FindByRegistrationId(table, registrationId)
        check == VerifyDriverIsActiveViaErrorHandler
        called == [i \in 1..Len(images) |->
                      Ev("onUnavailableImageHandler", registrationId, images[i])]
        before == check \o <<Ev("RemoveSubscription", registrationId, NoImage)>>
                    \o called
        lingered == LingerResources(
                        Lingering(m_lingeringLogBuffers, m_lingeringImageArrays, before),
                        now, images, array)
    IN IF it # 0
       THEN [table |-> Erase(table, it),
             l |-> [lingered EXCEPT !.trace =
                       Append(@, Ev("erase", registrationId, NoImage))]]
       ELSE [table |-> table,
             l |-> Lingering(m_lingeringLogBuffers, m_lingeringImageArrays, check)]

\* releaseSubscription(registrationId, images, imagesLength): the table, the
\* linger lists and the trace after the call.
ReleaseSubscriptionIn(table, registrationId, images, array) ==
    LET it == FindByRegistrationId(table, registrationId)
        check == VerifyDriverIsActiveViaErrorHandler
        called == [i \in 1..Len(images) |->
                      Ev("onUnavailableImageHandler", registrationId, images[i])]
        before == check \o <<Ev("RemoveSubscription", registrationId, NoImage)>>
                    \o called \o <<Ev("erase", registrationId, NoImage)>>
    IN IF it # 0
       THEN [table |-> Erase(table, it),
             l |-> LingerResources(
                       Lingering(m_lingeringLogBuffers, m_lingeringImageArrays, before),
                       now, images, array)]
       ELSE [table |-> table,
             l |-> Lingering(m_lingeringLogBuffers, m_lingeringImageArrays, check)]

\* The caller is the owner of the Subscription giving it up: it passes the
\* subscription's current image array, which the conductor takes over and
\* deletes when its linger ends, and the Subscription is gone after the call.
ReleaseSubscription(registrationId) ==
    LET it == FindByRegistrationId(m_subscriptions, registrationId)
        sub == IF it = 0 THEN 0 ELSE Lock(m_subscriptions[it].m_subscription, subscriptions)
        images == IF sub = 0 THEN <<>> ELSE subscriptions[sub].images
        array == IF sub = 0 THEN 0 ELSE subscriptions[sub].array
        r == ReleaseSubscriptionIn(m_subscriptions, registrationId, images, array)
    IN /\ WithinLinger(r.l)
       /\ m_subscriptions' = r.table
       /\ m_lingeringLogBuffers' = r.l.logBuffers
       /\ m_lingeringImageArrays' = r.l.arrays
       /\ subscriptions' = Without(subscriptions, sub)
       /\ ret' = Returned("releaseSubscription", "", 0, registrationId, 0, r.l.trace)
       /\ UNCHANGED <<m_publications, m_exclusivePublications, publications,
                      m_driverActive, nextCorrelationId, now>>

\* ------------------------------------------------------ the Subscription

\* Subscription::hasImage(correlationId)
HasImage(sub, correlationId) ==
    \E i \in 1..Len(sub.images) : sub.images[i].correlationId = correlationId

\* Subscription::addImage(image): swaps in a new array ending with the image
\* and returns the array it replaced (nullptr at the first image).
AddImage(sub, image) ==
    [subscription |-> [sub EXCEPT !.images = Append(sub.images, image),
                                  !.array = sub.registrationId],
     oldArray |-> sub.array]

\* Subscription::removeImage(correlationId): swaps in an array without the
\* image and returns the old array and the image's index in it; index 0 and
\* no array when no image has that correlation id.
RemoveImage(sub, correlationId) ==
    LET hits == {i \in 1..Len(sub.images) : sub.images[i].correlationId = correlationId}
        index == IF hits = {} THEN 0 ELSE Min(hits)
    IN [subscription |-> IF index = 0 THEN sub
                         ELSE [sub EXCEPT !.images = Erase(sub.images, index)],
        oldArray |-> IF index = 0 THEN 0 ELSE sub.array,
        image |-> IF index = 0 THEN NoImage ELSE sub.images[index],
        index |-> index]

\* Subscription::removeAndCloseAllImages(): closes every image, leaves the
\* subscription with a new, empty array and returns the old one.
RemoveAndCloseAllImages(sub) ==
    [subscription |-> [sub EXCEPT !.images = <<>>, !.array = sub.registrationId],
     images |-> [i \in 1..Len(sub.images) |-> [sub.images[i] EXCEPT !.closed = TRUE]],
     array |-> sub.array]

\* ------------------------------------------------------- driver events

NewPublication(streamId, sessionId, counterId, logFileName, registrationId, originalId) ==
    [streamId |-> streamId, sessionId |-> sessionId,
     positionLimitCounterId |-> counterId, logFileName |-> logFileName,
     registrationId |-> registrationId, originalRegistrationId |-> originalId]

NewPublications ==
    {NewPublication(s, n, c, f, r, o) :
        s \in Streams, n \in SessionIds, c \in CounterIds, f \in LogFileNames,
        r \in RegistrationIds, o \in OriginalRegistrationIds}

\* onNewPublication and onNewExclusivePublication on their table.
OnNewPublicationIn(op, table, e) ==
    LET it == FindByRegistrationId(table, e.registrationId)
        buffers == LogBuffers(e.logFileName, e.registrationId, 0)
    IN IF it # 0
       THEN [table |-> [table EXCEPT
                 ![it].m_status = REGISTERED_MEDIA_DRIVER,
                 ![it].m_sessionId = e.sessionId,
                 ![it].m_positionLimitCounterId = e.positionLimitCounterId,
                 ![it].m_buffers = buffers,
                 ![it].m_originalRegistrationId = e.originalRegistrationId],
             ret |-> Returned(op, table[it].m_channel, e.streamId, e.registrationId, e,
                        <<Ev("onNewPublicationHandler", e.registrationId, NoImage)>>)]
       ELSE [table |-> table,
             ret |-> Returned(op, "", e.streamId, e.registrationId, e, <<>>)]

OnNewPublication(e) ==
    LET r == OnNewPublicationIn("onNewPublication", m_publications, e)
    IN /\ m_publications' = r.table
       /\ ret' = r.ret
       /\ UNCHANGED <<m_exclusivePublications, m_subscriptions, lingering, handles,
                      m_driverActive, nextCorrelationId, now>>

OnNewExclusivePublication(e) ==
    LET r == OnNewPublicationIn("onNewExclusivePublication", m_exclusivePublications, e)
    IN /\ m_exclusivePublications' = r.table
       /\ ret' = r.ret
       /\ UNCHANGED <<m_publications, m_subscriptions, lingering, handles,
                      m_driverActive, nextCorrelationId, now>>

\* An onOperationSuccess that registers the subscription and calls no handler.
OnOperationSuccessSilent(correlationId) ==
    LET subIt == FindByRegistrationId(m_subscriptions, correlationId)
    IN IF subIt # 0 /\ m_subscriptions[subIt].m_status = AWAITING_MEDIA_DRIVER
       THEN LET state == m_subscriptions[subIt]
            IN /\ m_subscriptions' = [m_subscriptions EXCEPT
                       ![subIt].m_status = REGISTERED_MEDIA_DRIVER,
                       ![subIt].m_subscriptionCache = state.m_registrationId,
                       ![subIt].m_subscription = state.m_registrationId]
               /\ subscriptions' = With(subscriptions, state.m_registrationId,
                       Subscription(state.m_registrationId, state.m_channel, state.m_streamId))
               /\ ret' = Returned("onOperationSuccess", state.m_channel, state.m_streamId,
                       correlationId, 0,
                       <<Ev("make_shared", state.m_registrationId, NoImage)>>)
               /\ UNCHANGED <<m_publications, m_exclusivePublications, lingering,
                              publications, m_driverActive, nextCorrelationId, now>>
       ELSE /\ ret' = Returned("onOperationSuccess", "", 0, correlationId, 0, <<>>)
            /\ UNCHANGED <<tables, lingering, handles, m_driverActive,
                           nextCorrelationId, now>>

\* An onOperationSuccess that does not look at the status of the record.
OnOperationSuccessAnyStatus(correlationId) ==
    LET subIt == FindByRegistrationId(m_subscriptions, correlationId)
    IN IF subIt # 0
       THEN LET state == m_subscriptions[subIt]
            IN /\ m_subscriptions' = [m_subscriptions EXCEPT
                       ![subIt].m_status = REGISTERED_MEDIA_DRIVER,
                       ![subIt].m_subscriptionCache = state.m_registrationId,
                       ![subIt].m_subscription = state.m_registrationId]
               /\ subscriptions' = With(subscriptions, state.m_registrationId,
                       Subscription(state.m_registrationId, state.m_channel, state.m_streamId))
               /\ ret' = Returned("onOperationSuccess", state.m_channel, state.m_streamId,
                       correlationId, 0,
                       <<Ev("make_shared", state.m_registrationId, NoImage),
                         Ev("onNewSubscriptionHandler", correlationId, NoImage)>>)
               /\ UNCHANGED <<m_publications, m_exclusivePublications, lingering,
                              publications, m_driverActive, nextCorrelationId, now>>
       ELSE /\ ret' = Returned("onOperationSuccess", "", 0, correlationId, 0, <<>>)
            /\ UNCHANGED <<tables, lingering, handles, m_driverActive,
                           nextCorrelationId, now>>

OnOperationSuccess(correlationId) ==
    LET subIt == FindByRegistrationId(m_subscriptions, correlationId)
    IN IF subIt # 0 /\ m_subscriptions[subIt].m_status = AWAITING_MEDIA_DRIVER
       THEN LET state == m_subscriptions[subIt]
            IN /\ m_subscriptions' = [m_subscriptions EXCEPT
                       ![subIt].m_status = REGISTERED_MEDIA_DRIVER,
                       ![subIt].m_subscriptionCache = state.m_registrationId,
                       ![subIt].m_subscription = state.m_registrationId]
               /\ subscriptions' = With(subscriptions, state.m_registrationId,
                       Subscription(state.m_registrationId, state.m_channel, state.m_streamId))
               /\ ret' = Returned("onOperationSuccess", state.m_channel, state.m_streamId,
                       correlationId, 0,
                       <<Ev("make_shared", state.m_registrationId, NoImage),
                         Ev("onNewSubscriptionHandler", correlationId, NoImage)>>)
               /\ UNCHANGED <<m_publications, m_exclusivePublications, lingering,
                              publications, m_driverActive, nextCorrelationId, now>>
       ELSE /\ ret' = Returned("onOperationSuccess", "", 0, correlationId, 0, <<>>)
            /\ UNCHANGED <<tables, lingering, handles, m_driverActive,
                           nextCorrelationId, now>>

\* The three assignments onErrorResponse makes to the record it finds.
Errored(table, it, errorCode, errorMessage) ==
    [table EXCEPT ![it].m_status = ERRORED_MEDIA_DRIVER,
                  ![it].m_errorCode = errorCode,
                  ![it].m_errorMessage = errorMessage]

OnErrorResponse(offendingCommandCorrelationId, errorCode, errorMessage) ==
    LET subIt == FindByRegistrationId(m_subscriptions, offendingCommandCorrelationId)
        pubIt == FindByRegistrationId(m_publications, offendingCommandCorrelationId)
        exPubIt == FindByRegistrationId(m_exclusivePublications,
                                        offendingCommandCorrelationId)
    IN /\ ret' = Ret("onErrorResponse", "", 0, offendingCommandCorrelationId, 0, "",
                     errorCode, errorMessage, <<>>)
       /\ UNCHANGED <<lingering, handles, m_driverActive, nextCorrelationId, now>>
       /\ IF subIt # 0
          THEN /\ m_subscriptions' = Errored(m_subscriptions, subIt, errorCode, errorMessage)
               /\ UNCHANGED <<m_publications, m_exclusivePublications>>
          ELSE IF pubIt # 0
          THEN /\ m_publications' = Errored(m_publications, pubIt, errorCode, errorMessage)
               /\ UNCHANGED <<m_exclusivePublications, m_subscriptions>>
          ELSE IF exPubIt # 0
          THEN /\ m_exclusivePublications' =
                      Errored(m_exclusivePublications, exPubIt, errorCode, errorMessage)
               /\ UNCHANGED <<m_publications, m_subscriptions>>
          ELSE UNCHANGED tables

AvailableImage(streamId, sessionId, logFilename, sourceIdentity, positionId, positionRegistrationId, correlationId) ==
    [streamId |-> streamId, sessionId |-> sessionId, logFilename |-> logFilename,
     sourceIdentity |-> sourceIdentity, subscriberPositionIndicatorId |-> positionId,
     subscriberPositionRegistrationId |-> positionRegistrationId,
     correlationId |-> correlationId]

AvailableImages ==
    {AvailableImage(s, n, f, i, p, r, c) :
        s \in Streams, n \in SessionIds, f \in LogFileNames, i \in SourceIdentities,
        p \in CounterIds, r \in RegistrationIds, c \in ImageCorrelationIds}

\* The subscriptions and linger lists an event handler has got to so far.
Pass(subs, l) == [subscriptions |-> subs, l |-> l]

\* The test of onAvailableImage comparing the entry's stream with the session.
TakesImageWrongField(entry, subs, e) ==
    /\ e.sessionId = entry.m_streamId
    /\ Lock(entry.m_subscription, subs) # 0
    /\ ~HasImage(subs[entry.m_subscription], e.correlationId)
    /\ e.subscriberPositionRegistrationId = subs[entry.m_subscription].registrationId

\* The test onAvailableImage makes on each entry.
TakesImage(entry, subs, e) ==
    /\ e.streamId = entry.m_streamId
    /\ Lock(entry.m_subscription, subs) # 0
    /\ ~HasImage(subs[entry.m_subscription], e.correlationId)
    /\ e.subscriberPositionRegistrationId = subs[entry.m_subscription].registrationId

\* onAvailableImage adding the image before it calls the handler.
DeliverAvailableAddFirst(acc, entry, image, t) ==
    LET id == entry.m_subscription
        added == AddImage(acc.subscriptions[id], image)
        stored == [acc.l EXCEPT !.trace = Append(@, Ev("addImage", id, image))]
        called == [stored EXCEPT !.trace =
                      Append(@, Ev("onAvailableImageHandler", entry.m_registrationId, image))]
    IN Pass(With(acc.subscriptions, id, added.subscription),
            IF added.oldArray = 0 THEN called
            ELSE LingerImageArray(called, t, added.oldArray))

\* What onAvailableImage does for an entry that takes the image: the handler
\* with the new image, addImage, and the replaced array lingered.
DeliverAvailable(acc, entry, image, t) ==
    LET id == entry.m_subscription
        called == [acc.l EXCEPT !.trace =
                      Append(@, Ev("onAvailableImageHandler", entry.m_registrationId, image))]
        added == AddImage(acc.subscriptions[id], image)
        stored == [called EXCEPT !.trace = Append(@, Ev("addImage", id, image))]
    IN Pass(With(acc.subscriptions, id, added.subscription),
            IF added.oldArray = 0 THEN stored
            ELSE LingerImageArray(stored, t, added.oldArray))

RECURSIVE OnAvailableImageFrom(_, _, _)
OnAvailableImageFrom(i, acc, e) ==
    IF i > Len(m_subscriptions) THEN acc
    ELSE LET entry == m_subscriptions[i]
         IN IF TakesImage(entry, acc.subscriptions, e)
            THEN LET logBuffers == LogBuffers(e.logFilename, entry.m_registrationId,
                                              e.correlationId)
                     image == Image(e.sessionId, e.correlationId,
                                    acc.subscriptions[entry.m_subscription].registrationId,
                                    e.sourceIdentity, e.subscriberPositionIndicatorId,
                                    logBuffers)
                 IN OnAvailableImageFrom(i + 1, DeliverAvailable(acc, entry, image, now), e)
            ELSE OnAvailableImageFrom(i + 1, acc, e)

OnAvailableImage(e) ==
    LET r == OnAvailableImageFrom(1,
                 Pass(subscriptions,
                      Lingering(m_lingeringLogBuffers, m_lingeringImageArrays, <<>>)), e)
    IN /\ WithinLinger(r.l)
       /\ subscriptions' = r.subscriptions
       /\ m_lingeringLogBuffers' = r.l.logBuffers
       /\ m_lingeringImageArrays' = r.l.arrays
       /\ ret' = Returned("onAvailableImage", "", e.streamId, e.correlationId,
                          e.subscriberPositionRegistrationId, r.l.trace)
       /\ UNCHANGED <<tables, publications, m_driverActive, nextCorrelationId, now>>

\* What onUnavailableImage does for an entry whose subscription is alive:
\* removeImage and, when it found the image, both lingers and the handler.
DeliverUnavailable(acc, entry, correlationId, t) ==
    LET id == entry.m_subscription
        result == RemoveImage(acc.subscriptions[id], correlationId)
        image == result.image
        removed == [acc.l EXCEPT !.trace = Append(@, Ev("removeImage", id, image))]
        lingered == LingerImageArray(LingerLogBuffers(removed, t, image), t, result.oldArray)
    IN IF result.index = 0 THEN acc
       ELSE Pass(With(acc.subscriptions, id, result.subscription),
                 [lingered EXCEPT !.trace =
                     Append(@, Ev("onUnavailableImageHandler", entry.m_registrationId, image))])

RECURSIVE OnUnavailableImageFrom(_, _, _, _, _)
OnUnavailableImageFrom(i, acc, streamId, correlationId, t) ==
    IF i > Len(m_subscriptions) THEN acc
    ELSE LET entry == m_subscriptions[i]
         IN IF streamId = entry.m_streamId /\ Lock(entry.m_subscription, acc.subscriptions) # 0
            THEN OnUnavailableImageFrom(i + 1,
                     DeliverUnavailable(acc, entry, correlationId, t),
                     streamId, correlationId, t)
            ELSE OnUnavailableImageFrom(i + 1, acc, streamId, correlationId, t)

OnUnavailableImage(streamId, correlationId) ==
    LET r == OnUnavailableImageFrom(1,
                 Pass(subscriptions,
                      Lingering(m_lingeringLogBuffers, m_lingeringImageArrays, <<>>)),
                 streamId, correlationId, now)
    IN /\ WithinLinger(r.l)
       /\ subscriptions' = r.subscriptions
       /\ m_lingeringLogBuffers' = r.l.logBuffers
       /\ m_lingeringImageArrays' = r.l.arrays
       /\ ret' = Returned("onUnavailableImage", "", streamId, correlationId, 0, r.l.trace)
       /\ UNCHANGED <<tables, publications, m_driverActive, nextCorrelationId, now>>

\* The handles onInterServiceTimeout closes: those the weak reference of a
\* record of the table still reaches.
Reached(table, objects) ==
    {Lock(table[i].m_publication, objects) : i \in 1..Len(table)} \ {0}

\* The subscriptions loop of onInterServiceTimeout from entry i on.
RECURSIVE OnInterServiceTimeoutFrom(_, _, _)
OnInterServiceTimeoutFrom(i, acc, t) ==
    IF i > Len(m_subscriptions) THEN acc
    ELSE LET entry == m_subscriptions[i]
             sub == Lock(entry.m_subscription, acc.subscriptions)
             removeResult == RemoveAndCloseAllImages(acc.subscriptions[sub])
             removed == [acc.l EXCEPT !.trace =
                            Append(@, Ev("removeAndCloseAllImages", sub, NoImage))]
         IN IF sub # 0
            THEN OnInterServiceTimeoutFrom(i + 1,
                     Pass(With(acc.subscriptions, sub, removeResult.subscription),
                          LingerResources(removed, t, removeResult.images,
                                          removeResult.array)),
                     t)
            ELSE OnInterServiceTimeoutFrom(i + 1, acc, t)

OnInterServiceTimeout ==
    LET closed == Reached(m_publications, publications)
                    \cup Reached(m_exclusivePublications, publications)
        r == OnInterServiceTimeoutFrom(1,
                 Pass(subscriptions,
                      Lingering(m_lingeringLogBuffers, m_lingeringImageArrays, <<>>)),
                 now)
    IN /\ WithinLinger(r.l)
       /\ publications' = [h \in DOMAIN publications |->
                              IF h \in closed THEN [publications[h] EXCEPT !.closed = TRUE]
                              ELSE publications[h]]
       /\ m_publications' = <<>>
       /\ m_exclusivePublications' = <<>>
       /\ m_subscriptions' = <<>>
       /\ subscriptions' = Surviving(<<>>, r.subscriptions)
       /\ m_lingeringLogBuffers' = r.l.logBuffers
       /\ m_lingeringImageArrays' = r.l.arrays
       /\ ret' = Returned("onInterServiceTimeout", "", 0, now, 0, r.l.trace)
       /\ UNCHANGED <<m_driverActive, nextCorrelationId, now>>

\* The linger test with >= for >.
LingerExpiredEarly(t, entry) ==
    t >= entry.m_timeOfLastStatusChange + m_resourceLingerTimeoutMs

\* The predicate of both remove_if calls of onCheckManagedResources.
LingerExpired(t, entry) ==
    t > entry.m_timeOfLastStatusChange + m_resourceLingerTimeoutMs

\* std::remove_if followed by erase: the entries the predicate rejects, in order.
RemoveIf(list, t) ==
    LET kept == {i \in 1..Len(list) : ~LingerExpired(t, list[i])}
        RECURSIVE from(_)
        from(i) == IF i > Len(list) THEN <<>>
                   ELSE IF i \in kept THEN <<list[i]>> \o from(i + 1)
                   ELSE from(i + 1)
    IN from(1)

OnCheckManagedResources ==
    /\ m_lingeringLogBuffers' = RemoveIf(m_lingeringLogBuffers, now)
    /\ m_lingeringImageArrays' = RemoveIf(m_lingeringImageArrays, now)
    /\ ret' = Returned("onCheckManagedResources", "", 0, now, 0, <<>>)
    /\ UNCHANGED <<tables, handles, m_driverActive, nextCorrelationId, now>>

\* ------------------------------------------------- the conductor's world

\* The application lets go of its last reference to a publication.
DropPublication(h) ==
    /\ h \in DOMAIN publications
    /\ publications' = Without(publications, h)
    /\ ret' = Returned("dropPublication", "", 0, h, 0, <<>>)
    /\ UNCHANGED <<tables, lingering, subscriptions, m_driverActive, nextCorrelationId, now>>

\* The epoch clock advances.
Tick ==
    /\ now < MaxTime
    /\ now' = now + 1
    /\ ret' = Returned("tick", "", 0, now + 1, 0, <<>>)
    /\ UNCHANGED <<tables, lingering, handles, m_driverActive, nextCorrelationId>>

\* The driver's keepalive lapses and the conductor marks the driver inactive.
DriverInactive ==
    /\ m_driverActive
    /\ m_driverActive' = FALSE
    /\ ret' = Returned("driverInactive", "", 0, 0, 0, <<>>)
    /\ UNCHANGED <<tables, lingering, handles, nextCorrelationId, now>>

\* ---------------------------------------------------- the distinct error log

\* The threads that call aeron_distinct_error_log_record.
Writers == {1, 2}
ObservedErrorCodes == {5, 6}
Messages == {"a", "bb"}

RECURSIVE Repeat(_, _)
Repeat(str, n) ==
    IF n = 0 THEN ""
    ELSE IF n % 2 = 1 THEN str \o Repeat(str, n - 1)
    ELSE LET half == Repeat(str, n \div 2) IN half \o half

\* Two descriptions that differ past their first AERON_MAX_PATH characters.
LongDescriptionA == Repeat("x", AERON_MAX_PATH) \o "a"
LongDescriptionB == Repeat("x", AERON_MAX_PATH) \o "b"
Descriptions == {"disk full", LongDescriptionA, LongDescriptionB}

\* The since_timestamp of a read: before, among and after the clock's values.
SinceTimestamps == 0..(MaxClock + 1)

\* The first n characters of a string: what strndup(str, n) returns and what
\* snprintf with room for n characters writes.
Prefix(str, n) == IF Len(str) <= n THEN str ELSE SubSeq(str, 1, n)

\* strncmp(a, b, n) == 0
Strncmp0(a, b, n) == Prefix(a, n) = Prefix(b, n)

AERON_ALIGN(value, alignment) ==
    ((value + alignment - 1) \div alignment) * alignment

\* snprintf(encoded_error, sizeof(encoded_error) - 1, "%d: %s %s", ...)
EncodedError(error_code, description, message) ==
    Prefix(ToString(error_code) \o ": " \o description \o " " \o message,
           AERON_MAX_PATH - 2)

\* aeron_error_log_entry_t and the text after it; a part of the buffer no
\* one has written reads as zero.
ZeroEntry ==
    [length |-> 0, first_observation_timestamp |-> 0,
     last_observation_timestamp |-> 0, observation_count |-> 0, text |-> ""]

EntryAt(buf, offset) == IF offset \in DOMAIN buf THEN buf[offset] ELSE ZeroEntry

\* aeron_distinct_observation_t; NoObservation is NULL.
Observation(error_code, description, offset) ==
    [error_code |-> error_code, description |-> description, offset |-> offset]

NoObservation == Observation(0, "", -1)

\* A find that compares the descriptions alone.
FindObservationAnyCode(array, num, error_code, description) ==
    LET hits == {i \in 1..num :
                    Strncmp0(array[i].description, description, AERON_MAX_PATH)}
    IN IF hits = {} THEN NoObservation ELSE array[Min(hits)]

\* aeron_distinct_error_log_find_observation over the first num elements.
FindObservation(array, num, error_code, description) ==
    LET hits == {i \in 1..num :
                    /\ array[i].error_code = error_code
                    /\ Strncmp0(array[i].description, description, AERON_MAX_PATH)}
    IN IF hits = {} THEN NoObservation ELSE array[Min(hits)]

\* The arguments and locals of aeron_distinct_error_log_record and of
\* aeron_distinct_error_log_new_observation.
NoLocals ==
    [error_code |-> 0, description |-> "", message |-> "", timestamp |-> 0,
     num_observations |-> 0, observations |-> <<>>, observation |-> NoObservation,
     new_num_observations |-> 0, new_observations |-> <<>>,
     encoded_error |-> "", length |-> 0, offset |-> 0, new_array |-> <<>>]

\* A call of record that has returned: its arguments, the clock value it
\* took, the offset of the entry it counted in (-1 for none) and its result.
Call(t, l, result) ==
    [thread |-> t, error_code |-> l.error_code, description |-> l.description,
     message |-> l.message, timestamp |-> l.timestamp,
     offset |-> l.observation.offset, result |-> result]

\* return result: the call joins the history and the thread is idle again.
Return(t, result) ==
    /\ calls' = Append(calls, Call(t, local[t], result))
    /\ local' = [local EXCEPT ![t] = NoLocals]
    /\ pc' = [pc EXCEPT ![t] = "idle"]

Goto(t, label) == pc' = [pc EXCEPT ![t] = label]

\* The stores of new_observation with the length stored first.
NewObservationOrderLengthFirst ==
    <<"length", "memcpy", "first_observation_timestamp", "observation_count",
      "next_offset", "observations", "num_observations", "linger_resource">>

\* The stores of new_observation once the entry fits, in program order.
NewObservationOrder ==
    <<"memcpy", "first_observation_timestamp", "observation_count", "next_offset",
      "observations", "num_observations", "length", "linger_resource">>

\* The label after a store of new_observation; the mutex is released after
\* the last.
Following(label) ==
    LET k == CHOOSE i \in 1..Len(NewObservationOrder) : NewObservationOrder[i] = label
    IN IF k = Len(NewObservationOrder) THEN "unlock" ELSE NewObservationOrder[k + 1]

\* What a step of a recording thread leaves alone besides its own locals.
logShared == <<buffer, next_offset, observations, num_observations, mutex, lingered_arrays>>

\* The threads inside a call of record.
Recording == {w \in Writers : pc[w] # "idle"}

\* aeron_distinct_error_log_record is called: timestamp = log->clock().
Record(t, error_code, description, message) ==
    /\ pc[t] = "idle"
    /\ Len(calls) + Cardinality(Recording) < MaxCalls
    /\ local' = [local EXCEPT ![t] =
                    [NoLocals EXCEPT !.error_code = error_code,
                                     !.description = description,
                                     !.message = message,
                                     !.timestamp = clock]]
    /\ Goto(t, "load_num_observations")
    /\ UNCHANGED <<conductor, ringBuffer, driverContext, logShared, clock, calls, reader>>

\* num_observations = atomic_load(&num_observations)
LoadNumObservations(t) ==
    /\ pc[t] = "load_num_observations"
    /\ local' = [local EXCEPT ![t].num_observations = num_observations]
    /\ Goto(t, "load_observations")
    /\ UNCHANGED <<conductor, ringBuffer, driverContext, logShared, clock, calls, reader>>

\* observations = atomic_load(&observations), and the lookup without the lock.
LoadObservations(t) ==
    LET found == FindObservation(observations, local[t].num_observations,
                                 local[t].error_code, local[t].description)
    IN /\ pc[t] = "load_observations"
       /\ local' = [local EXCEPT ![t].observations = observations,
                                 ![t].observation = found]
       /\ Goto(t, IF found = NoObservation THEN "lock" ELSE "get_and_add")
       /\ UNCHANGED <<conductor, ringBuffer, driverContext, logShared, clock, calls, reader>>

\* pthread_mutex_lock(&log->mutex)
MutexLock(t) ==
    /\ pc[t] = "lock"
    /\ mutex = 0
    /\ mutex' = t
    /\ Goto(t, "new_observation")
    /\ UNCHANGED <<conductor, ringBuffer, driverContext, buffer, next_offset, observations, num_observations,
                   lingered_arrays, clock, local, calls, reader>>

\* A new_observation that does not test for room.
NewObservationAnyLength(t) ==
    LET l == local[t]
        found == FindObservation(observations, l.num_observations,
                                 l.error_code, l.description)
        encoded_error == EncodedError(l.error_code, l.description, l.message)
        length == AERON_ERROR_LOG_HEADER_LENGTH + Len(encoded_error)
        new_array == <<Observation(l.error_code, Prefix(l.description, AERON_MAX_PATH),
                                   next_offset)>> \o observations
    IN /\ pc[t] = "new_observation"
       /\ IF found # NoObservation
          THEN /\ local' = [local EXCEPT ![t].observation = found]
               /\ Goto(t, "unlock")
          ELSE /\ local' = [local EXCEPT ![t].new_num_observations = num_observations,
                                         ![t].new_observations = observations,
                                         ![t].encoded_error = encoded_error,
                                         ![t].length = length,
                                         ![t].offset = next_offset,
                                         ![t].new_array = new_array]
               /\ Goto(t, NewObservationOrder[1])
       /\ UNCHANGED <<conductor, ringBuffer, driverContext, logShared, clock, calls, reader>>

\* aeron_distinct_error_log_new_observation up to its first store: the second
\* lookup, over existing_num_observations elements of the array as it is now,
\* the encoding, and the test for room.
NewObservation(t) ==
    LET l == local[t]
        found == FindObservation(observations, l.num_observations,
                                 l.error_code, l.description)
        encoded_error == EncodedError(l.error_code, l.description, l.message)
        length == AERON_ERROR_LOG_HEADER_LENGTH + Len(encoded_error)
        new_array == <<Observation(l.error_code, Prefix(l.description, AERON_MAX_PATH),
                                   next_offset)>> \o observations
    IN /\ pc[t] = "new_observation"
       /\ IF found # NoObservation
          THEN /\ local' = [local EXCEPT ![t].observation = found]
               /\ Goto(t, "unlock")
          ELSE IF next_offset + length > buffer_capacity
          THEN /\ local' = local
               /\ Goto(t, "unlock")
          ELSE /\ local' = [local EXCEPT ![t].new_num_observations = num_observations,
                                         ![t].new_observations = observations,
                                         ![t].encoded_error = encoded_error,
                                         ![t].length = length,
                                         ![t].offset = next_offset,
                                         ![t].new_array = new_array]
               /\ Goto(t, NewObservationOrder[1])
       /\ UNCHANGED <<conductor, ringBuffer, driverContext, logShared, clock, calls, reader>>

\* memcpy(log->buffer + offset + AERON_ERROR_LOG_HEADER_LENGTH, encoded_error, ...)
CopyEncodedError(t) ==
    /\ pc[t] = "memcpy"
    /\ buffer' = With(buffer, local[t].offset,
                      [EntryAt(buffer, local[t].offset) EXCEPT
                          !.text = local[t].encoded_error])
    /\ Goto(t, Following("memcpy"))
    /\ UNCHANGED <<conductor, ringBuffer, driverContext, next_offset, observations, num_observations, mutex,
                   lingered_arrays, clock, local, calls, reader>>

\* entry->first_observation_timestamp = timestamp
StoreFirstObservationTimestamp(t) ==
    /\ pc[t] = "first_observation_timestamp"
    /\ buffer' = With(buffer, local[t].offset,
                      [EntryAt(buffer, local[t].offset) EXCEPT
                          !.first_observation_timestamp = local[t].timestamp])
    /\ Goto(t, Following("first_observation_timestamp"))
    /\ UNCHANGED <<conductor, ringBuffer, driverContext, next_offset, observations, num_observations, mutex,
                   lingered_arrays, clock, local, calls, reader>>

\* An entry that starts with a count of 1.
StoreObservationCountOne(t) ==
    /\ pc[t] = "observation_count"
    /\ buffer' = With(buffer, local[t].offset,
                      [EntryAt(buffer, local[t].offset) EXCEPT !.observation_count = 1])
    /\ Goto(t, Following("observation_count"))
    /\ UNCHANGED <<conductor, ringBuffer, driverContext, next_offset, observations, num_observations, mutex,
                   lingered_arrays, clock, local, calls, reader>>

\* entry->observation_count = 0
StoreObservationCount(t) ==
    /\ pc[t] = "observation_count"
    /\ buffer' = With(buffer, local[t].offset,
                      [EntryAt(buffer, local[t].offset) EXCEPT !.observation_count = 0])
    /\ Goto(t, Following("observation_count"))
    /\ UNCHANGED <<conductor, ringBuffer, driverContext, next_offset, observations, num_observations, mutex,
                   lingered_arrays, clock, local, calls, reader>>

\* log->next_offset = AERON_ALIGN(offset + length, AERON_ERROR_LOG_RECORD_ALIGNMENT)
StoreNextOffset(t) ==
    /\ pc[t] = "next_offset"
    /\ next_offset' = AERON_ALIGN(local[t].offset + local[t].length,
                                  AERON_ERROR_LOG_RECORD_ALIGNMENT)
    /\ Goto(t, Following("next_offset"))
    /\ UNCHANGED <<conductor, ringBuffer, driverContext, buffer, observations, num_observations, mutex,
                   lingered_arrays, clock, local, calls, reader>>

\* new_array is filled and atomic_store(&observations, new_array)
StoreObservations(t) ==
    /\ pc[t] = "observations"
    /\ observations' = local[t].new_array
    /\ Goto(t, Following("observations"))
    /\ UNCHANGED <<conductor, ringBuffer, driverContext, buffer, next_offset, num_observations, mutex,
                   lingered_arrays, clock, local, calls, reader>>

\* atomic_store(&num_observations, num_observations + 1)
StoreNumObservations(t) ==
    /\ pc[t] = "num_observations"
    /\ num_observations' = local[t].new_num_observations + 1
    /\ Goto(t, Following("num_observations"))
    /\ UNCHANGED <<conductor, ringBuffer, driverContext, buffer, next_offset, observations, mutex,
                   lingered_arrays, clock, local, calls, reader>>

\* AERON_PUT_ORDERED(entry->length, length)
PutOrderedLength(t) ==
    /\ pc[t] = "length"
    /\ buffer' = With(buffer, local[t].offset,
                      [EntryAt(buffer, local[t].offset) EXCEPT !.length = local[t].length])
    /\ Goto(t, Following("length"))
    /\ UNCHANGED <<conductor, ringBuffer, driverContext, next_offset, observations, num_observations, mutex,
                   lingered_arrays, clock, local, calls, reader>>

\* observation = &new_array[0]; log->linger_resource(observations)
LingerResource(t) ==
    /\ pc[t] = "linger_resource"
    /\ lingered_arrays' = Append(lingered_arrays, local[t].new_observations)
    /\ local' = [local EXCEPT ![t].observation = local[t].new_array[1]]
    /\ Goto(t, Following("linger_resource"))
    /\ UNCHANGED <<conductor, ringBuffer, driverContext, buffer, next_offset, observations, num_observations,
                   mutex, clock, calls, reader>>

\* pthread_mutex_unlock(&log->mutex), and return -1 when there is no observation.
MutexUnlock(t) ==
    /\ pc[t] = "unlock"
    /\ mutex' = 0
    /\ IF local[t].observation = NoObservation
       THEN Return(t, -1)
       ELSE Goto(t, "get_and_add") /\ UNCHANGED <<local, calls>>
    /\ UNCHANGED <<conductor, ringBuffer, driverContext, buffer, next_offset, observations, num_observations,
                   lingered_arrays, clock, reader>>

\* An observation counted with a plain store of 1 in the place of the
\* atomic add.
PutObservationCountOne(t) ==
    LET offset == local[t].observation.offset
    IN /\ pc[t] = "get_and_add"
       /\ buffer' = With(buffer, offset,
                         [EntryAt(buffer, offset) EXCEPT !.observation_count = 1])
       /\ Goto(t, "put_ordered")
       /\ UNCHANGED <<conductor, ringBuffer, driverContext, next_offset, observations, num_observations, mutex,
                      lingered_arrays, clock, local, calls, reader>>

\* AERON_GET_AND_ADD_INT32(dest, entry->observation_count, 1)
GetAndAddObservationCount(t) ==
    LET offset == local[t].observation.offset
    IN /\ pc[t] = "get_and_add"
       /\ buffer' = With(buffer, offset,
                         [EntryAt(buffer, offset) EXCEPT !.observation_count = @ + 1])
       /\ Goto(t, "put_ordered")
       /\ UNCHANGED <<conductor, ringBuffer, driverContext, next_offset, observations, num_observations, mutex,
                      lingered_arrays, clock, local, calls, reader>>

\* AERON_PUT_ORDERED(entry->last_observation_timestamp, timestamp); return 0
PutOrderedLastObservationTimestamp(t) ==
    LET offset == local[t].observation.offset
    IN /\ pc[t] = "put_ordered"
       /\ buffer' = With(buffer, offset,
                         [EntryAt(buffer, offset) EXCEPT
                             !.last_observation_timestamp = local[t].timestamp])
       /\ Return(t, 0)
       /\ UNCHANGED <<conductor, ringBuffer, driverContext, next_offset, observations, num_observations, mutex,
                      lingered_arrays, clock, reader>>

\* The clock the log was given moves on.
ClockTick ==
    /\ clock < MaxClock
    /\ clock' = clock + 1
    /\ UNCHANGED <<conductor, ringBuffer, driverContext, logShared, pc, local, calls, reader>>

\* aeron_error_log_read: its arguments and locals, what it has handed to the
\* reader function, and what it returned (none while it runs).
NoRead ==
    [pc |-> "idle", since_timestamp |-> 0, offset |-> 0, length |-> 0,
     last_observation_timestamp |-> 0, entries |-> 0, delivered |-> <<>>,
     returned |-> -1]

\* What the reader function is called with.
Delivered(entry, length, last_observation_timestamp) ==
    [observation_count |-> entry.observation_count,
     first_observation_timestamp |-> entry.first_observation_timestamp,
     last_observation_timestamp |-> last_observation_timestamp,
     error |-> Prefix(entry.text, length - AERON_ERROR_LOG_HEADER_LENGTH),
     error_length |-> length - AERON_ERROR_LOG_HEADER_LENGTH]

\* aeron_error_log_read is called: entries = 0, offset = 0.
ErrorLogRead(since_timestamp) ==
    /\ reader.pc = "idle"
    /\ reader' = [NoRead EXCEPT !.pc = "length", !.since_timestamp = since_timestamp]
    /\ UNCHANGED <<conductor, ringBuffer, driverContext, logShared, clock, pc, local, calls>>

\* while (offset < buffer_size): AERON_GET_VOLATILE(length, entry->length);
\* a length of 0, or the end of the buffer, ends the read.
ReadLength ==
    LET length == EntryAt(buffer, reader.offset).length
    IN /\ reader.pc = "length"
       /\ reader' = IF reader.offset >= buffer_capacity \/ length = 0
                    THEN [reader EXCEPT !.pc = "idle", !.returned = reader.entries]
                    ELSE [reader EXCEPT !.pc = "last_observation_timestamp",
                                        !.length = length]
       /\ UNCHANGED <<conductor, ringBuffer, driverContext, logShared, clock, pc, local, calls>>

\* A read that passes over an entry last observed at since_timestamp.
ReadLastObservationTimestampAfter ==
    LET last == EntryAt(buffer, reader.offset).last_observation_timestamp
    IN /\ reader.pc = "last_observation_timestamp"
       /\ reader' = IF last > reader.since_timestamp
                    THEN [reader EXCEPT !.pc = "reader",
                                        !.last_observation_timestamp = last]
                    ELSE [reader EXCEPT !.pc = "length",
                                        !.last_observation_timestamp = last,
                                        !.offset = @ + AERON_ALIGN(reader.length,
                                                       AERON_ERROR_LOG_RECORD_ALIGNMENT)]
       /\ UNCHANGED <<conductor, ringBuffer, driverContext, logShared, clock, pc, local, calls>>

\* AERON_GET_VOLATILE(last_observation_timestamp, ...) and the test against
\* since_timestamp; an entry that fails it is stepped over.
ReadLastObservationTimestamp ==
    LET last == EntryAt(buffer, reader.offset).last_observation_timestamp
    IN /\ reader.pc = "last_observation_timestamp"
       /\ reader' = IF last >= reader.since_timestamp
                    THEN [reader EXCEPT !.pc = "reader",
                                        !.last_observation_timestamp = last]
                    ELSE [reader EXCEPT !.pc = "length",
                                        !.last_observation_timestamp = last,
                                        !.offset = @ + AERON_ALIGN(reader.length,
                                                       AERON_ERROR_LOG_RECORD_ALIGNMENT)]
       /\ UNCHANGED <<conductor, ringBuffer, driverContext, logShared, clock, pc, local, calls>>

\* ++entries; reader(...); offset += AERON_ALIGN(length, ...)
CallReader ==
    /\ reader.pc = "reader"
    /\ reader' = [reader EXCEPT
                     !.pc = "length",
                     !.entries = @ + 1,
                     !.delivered = Append(@, Delivered(EntryAt(buffer, reader.offset),
                                              reader.length,
                                              reader.last_observation_timestamp)),
                     !.offset = @ + AERON_ALIGN(reader.length,
                                                AERON_ERROR_LOG_RECORD_ALIGNMENT)]
    /\ UNCHANGED <<conductor, ringBuffer, driverContext, logShared, clock, pc, local, calls>>

\* aeron_distinct_error_log_init
InitErrorLog ==
    /\ buffer = <<>>
    /\ next_offset = 0
    /\ observations = <<>>
    /\ num_observations = 0
    /\ mutex = 0
    /\ lingered_arrays = <<>>
    /\ clock = 1
    /\ pc = [t \in Writers |-> "idle"]
    /\ local = [t \in Writers |-> NoLocals]
    /\ calls = <<>>
    /\ reader = NoRead

\* ------------------------------------------- the many-to-one ring buffer

Producers == {1, 2}

\* The lengths of the regions a ring buffer is constructed over: with a
\* capacity of 64, of CAPACITY, and of one byte less than each.
BufferSizes ==
    {64 + TRAILER_LENGTH, 63 + TRAILER_LENGTH,
     CAPACITY + TRAILER_LENGTH, (CAPACITY - 1) + TRAILER_LENGTH}

\* The msg_type_id of a write: the tests', zero and a negative one.
MsgTypeIds == {MSG_TYPE_ID, 0, -5}

\* A source buffer of n bytes, each of them byte.
Bytes(n, byte) == [i \in 1..n |-> byte]

\* The payloads of a write: none, 8 bytes (the most a capacity of 64
\* takes), 9 bytes, 100 bytes, and one more than CAPACITY / 8.
Payloads ==
    {Bytes(0, 65), Bytes(8, 65), Bytes(8, 66), Bytes(9, 65), Bytes(100, 65),
     Bytes(CAPACITY \div 8 + 1, 65)}

\* The k-th record of producer p when producers run at once: its type tells
\* p and k; producer 1 sends no payload, the others send two bytes, so that
\* records of two lengths share the region.
TypeOf(p, k) == 100 * p + k

PayloadOf(p, k) == IF p = 1 THEN <<>> ELSE <<p, k>>

\* max_records of a read.
ReadLimits == {1, 8}

\* The consumer heartbeat a read pass stores.
HeartbeatTimes == {1}

IsPowerOfTwo(value) == \E k \in 0..30 : value = 2 ^ k

maxMsgLength == capacity \div 8

\* A record of the data region; a part no one has written, or that the
\* consumer has zeroed, reads as zero.
ZeroRecord ==
    [record_length |-> 0, message_type_id |-> 0, message_length |-> 0, payload |-> <<>>]

RecordAt(offset) == IF offset \in DOMAIN region THEN region[offset] ELSE ZeroRecord

\* A producer outside write, and the consumer outside read. start is
\* history: the tail counter when write was called.
NoWrite ==
    [pc |-> "idle", msg_type_id |-> 0, src |-> <<>>, required |-> 0, head |-> 0,
     tail |-> 0, start |-> 0]

NoPass ==
    [pc |-> "idle", max_records |-> 0, head |-> 0, bytes_read |-> 0, records_read |-> 0,
     handled |-> <<>>]

\* What the handler is called with: the type, the slice of the buffer that
\* holds the message, and its length; bytes no one has written are 0.
Handled(record) ==
    [msg_type_id |-> record.message_type_id,
     payload |-> [i \in 1..record.message_length |->
                     IF i <= Len(record.payload) THEN record.payload[i] ELSE 0],
     length |-> record.message_length]

\* A call that has returned: write's boolean, read's count, or the exception.
Outcome(op, p, msg_type_id, src, result, ex) ==
    [op |-> op, producer |-> p, msg_type_id |-> msg_type_id, src |-> src,
     result |-> result, ex |-> ex]

\* The calls of write so far: those that returned true and those under way.
Writes ==
    Cardinality({p \in Producers : producers[p].pc # "idle"})

\* A constructor that takes a region of any length.
ConstructAnySize(size) ==
    /\ capacity = 0
    /\ capacity' = size - TRAILER_LENGTH
    /\ outcome' = Outcome("construct", 0, 0, <<>>, size - TRAILER_LENGTH, "")
    /\ UNCHANGED <<conductor, errorLog, driverContext, tail, head, consumer_heartbeat,
                   region, producers, consumer, written>>

\* ManyToOneRingBuffer(buffer): the capacity is the length of the region
\* less the trailer, and has to be a power of two.
Construct(size) ==
    /\ capacity = 0
    /\ IF IsPowerOfTwo(size - TRAILER_LENGTH)
       THEN /\ capacity' = size - TRAILER_LENGTH
            /\ outcome' = Outcome("construct", 0, 0, <<>>, size - TRAILER_LENGTH, "")
       ELSE /\ capacity' = capacity
            /\ outcome' = Outcome("construct", 0, 0, <<>>, size - TRAILER_LENGTH,
                                  "IllegalArgumentException")
    /\ UNCHANGED <<conductor, errorLog, driverContext, tail, head, consumer_heartbeat,
                   region, producers, consumer, written>>

\* A write that takes any arguments.
WriteUnchecked(p, msg_type_id, src) ==
    /\ capacity # 0
    /\ producers[p].pc = "idle"
    /\ producers' = [producers EXCEPT ![p] =
           [NoWrite EXCEPT !.pc = "head", !.msg_type_id = msg_type_id,
                           !.src = src, !.start = tail,
                           !.required = AERON_ALIGN(Len(src) + HEADER_LENGTH,
                                                    ALIGNMENT)]]
    /\ UNCHANGED <<conductor, errorLog, driverContext, capacity, tail, head,
                   consumer_heartbeat, region, consumer, written, outcome>>

\* write(msg_type_id, src, src_index, length): the check of the arguments,
\* and required = align(length + header_length, alignment).
Write(p, msg_type_id, src) ==
    /\ capacity # 0
    /\ producers[p].pc = "idle"
    /\ IF Len(src) > maxMsgLength \/ msg_type_id <= 0
       THEN /\ outcome' = Outcome("write", p, msg_type_id, src, FALSE,
                                  "IllegalArgumentException")
            /\ producers' = producers
       ELSE /\ producers' = [producers EXCEPT ![p] =
                   [NoWrite EXCEPT !.pc = "head", !.msg_type_id = msg_type_id,
                                   !.src = src, !.start = tail,
                                   !.required = AERON_ALIGN(Len(src) + HEADER_LENGTH,
                                                            ALIGNMENT)]]
            /\ outcome' = outcome
    /\ UNCHANGED <<conductor, errorLog, driverContext, capacity, tail, head,
                   consumer_heartbeat, region, consumer, written>>

\* The claim: the producer loads the head.
LoadHead(p) ==
    /\ producers[p].pc = "head"
    /\ producers' = [producers EXCEPT ![p].head = head, ![p].pc = "tail"]
    /\ UNCHANGED <<conductor, errorLog, driverContext, capacity, tail, head,
                   consumer_heartbeat, region, consumer, written, outcome>>

\* A load of the tail that does not test the room.
LoadTailAnyRoom(p) ==
    /\ producers[p].pc = "tail"
    /\ producers' = [producers EXCEPT ![p].tail = tail, ![p].pc = "cas"]
    /\ UNCHANGED <<conductor, errorLog, driverContext, capacity, tail, head,
                   consumer_heartbeat, region, consumer, written, outcome>>

\* The claim: the producer loads the tail; with too little room left, tail -
\* head + required > capacity, write returns false.
LoadTail(p) ==
    LET w == producers[p]
    IN /\ w.pc = "tail"
       /\ IF tail - w.head + w.required > capacity
          THEN /\ producers' = [producers EXCEPT ![p] = NoWrite]
               /\ outcome' = Outcome("write", p, w.msg_type_id, w.src, FALSE, "")
          ELSE /\ producers' = [producers EXCEPT ![p].tail = tail, ![p].pc = "cas"]
               /\ outcome' = outcome
       /\ UNCHANGED <<conductor, errorLog, driverContext, capacity, tail, head,
                      consumer_heartbeat, region, consumer, written>>

\* The room from the tail to the end of the data region.
ToEnd(position) == capacity - (position % capacity)

\* A claim that stores the tail without comparing it.
SetTail(p) ==
    LET w == producers[p]
    IN /\ w.pc = "cas"
       /\ IF w.required > ToEnd(w.tail)
          THEN /\ tail' = w.tail + ToEnd(w.tail)
               /\ producers' = [producers EXCEPT ![p].pc = "padding"]
          ELSE /\ tail' = w.tail + w.required
               /\ producers' = [producers EXCEPT ![p].pc = "header"]
       /\ UNCHANGED <<conductor, errorLog, driverContext, capacity, head,
                      consumer_heartbeat, region, consumer, written, outcome>>

\* The claim: compare-and-swap of the tail. The producer that wins where the
\* record would run over the end of the region claims the rest of the region
\* for a padding record; the one that loses starts the claim again.
CompareAndSetTail(p) ==
    LET w == producers[p]
    IN /\ w.pc = "cas"
       /\ IF tail # w.tail
          THEN /\ tail' = tail
               /\ producers' = [producers EXCEPT ![p].pc = "head"]
          ELSE IF w.required > ToEnd(w.tail)
          THEN /\ tail' = tail + ToEnd(w.tail)
               /\ producers' = [producers EXCEPT ![p].pc = "padding"]
          ELSE /\ tail' = tail + w.required
               /\ producers' = [producers EXCEPT ![p].pc = "header"]
       /\ UNCHANGED <<conductor, errorLog, driverContext, capacity, head,
                      consumer_heartbeat, region, consumer, written, outcome>>

\* The padding record that fills the rest of the region; the claim starts
\* again, now at offset 0.
WritePadding(p) ==
    LET w == producers[p]
    IN /\ w.pc = "padding"
       /\ region' = With(region, w.tail % capacity,
                         [record_length |-> ToEnd(w.tail),
                          message_type_id |-> PADDING_MSG_TYPE_ID,
                          message_length |-> 0, payload |-> <<>>])
       /\ producers' = [producers EXCEPT ![p].pc = "head"]
       /\ UNCHANGED <<conductor, errorLog, driverContext, capacity, tail, head,
                      consumer_heartbeat, consumer, written, outcome>>

\* A header that is stored with its record_length already set.
WriteHeaderWithLength(p) ==
    LET w == producers[p]
    IN /\ w.pc = "header"
       /\ region' = With(region, w.tail % capacity,
                         [record_length |-> w.required, message_type_id |-> w.msg_type_id,
                          message_length |-> Len(w.src), payload |-> <<>>])
       /\ producers' = [producers EXCEPT ![p].pc = "payload"]
       /\ UNCHANGED <<conductor, errorLog, driverContext, capacity, tail, head,
                      consumer_heartbeat, consumer, written, outcome>>

\* The header of the claimed record, with record_length 0.
WriteHeader(p) ==
    LET w == producers[p]
    IN /\ w.pc = "header"
       /\ region' = With(region, w.tail % capacity,
                         [record_length |-> 0, message_type_id |-> w.msg_type_id,
                          message_length |-> Len(w.src), payload |-> <<>>])
       /\ producers' = [producers EXCEPT ![p].pc = "payload"]
       /\ UNCHANGED <<conductor, errorLog, driverContext, capacity, tail, head,
                      consumer_heartbeat, consumer, written, outcome>>

\* The payload, copied from src.
WritePayload(p) ==
    LET w == producers[p]
    IN /\ w.pc = "payload"
       /\ region' = With(region, w.tail % capacity,
                         [RecordAt(w.tail % capacity) EXCEPT !.payload = w.src])
       /\ producers' = [producers EXCEPT ![p].pc = "record_length"]
       /\ UNCHANGED <<conductor, errorLog, driverContext, capacity, tail, head,
                      consumer_heartbeat, consumer, written, outcome>>

\* A store of record_length that is not aligned.
PutRecordLengthUnaligned(p) ==
    LET w == producers[p]
    IN /\ w.pc = "record_length"
       /\ region' = With(region, w.tail % capacity,
                         [RecordAt(w.tail % capacity) EXCEPT
                             !.record_length = Len(w.src) + HEADER_LENGTH])
       /\ producers' = [producers EXCEPT ![p] = NoWrite]
       /\ written' = [written EXCEPT ![p] =
                          Append(@, [msg_type_id |-> w.msg_type_id, payload |-> w.src,
                                     length |-> Len(w.src)])]
       /\ outcome' = Outcome("write", p, w.msg_type_id, w.src, TRUE, "")
       /\ UNCHANGED <<conductor, errorLog, driverContext, capacity, tail, head,
                      consumer_heartbeat, consumer>>

\* The ordered store of record_length = required; write returns true.
PutRecordLengthOrdered(p) ==
    LET w == producers[p]
    IN /\ w.pc = "record_length"
       /\ region' = With(region, w.tail % capacity,
                         [RecordAt(w.tail % capacity) EXCEPT !.record_length = w.required])
       /\ producers' = [producers EXCEPT ![p] = NoWrite]
       /\ written' = [written EXCEPT ![p] =
                          Append(@, [msg_type_id |-> w.msg_type_id, payload |-> w.src,
                                     length |-> Len(w.src)])]
       /\ outcome' = Outcome("write", p, w.msg_type_id, w.src, TRUE, "")
       /\ UNCHANGED <<conductor, errorLog, driverContext, capacity, tail, head,
                      consumer_heartbeat, consumer>>

\* read(handler, max_records): the consumer reads the head.
Read(max_records) ==
    /\ capacity # 0
    /\ consumer.pc = "idle"
    /\ consumer' = [NoPass EXCEPT !.pc = "record_length", !.max_records = max_records,
                                  !.head = head, !.handled = consumer.handled]
    /\ UNCHANGED <<conductor, errorLog, driverContext, capacity, tail, head,
                   consumer_heartbeat, region, producers, written, outcome>>

\* Where in the data region the consumer is.
ReadIndex == (consumer.head % capacity) + consumer.bytes_read

\* The load of record_length: the pass ends at a zero, at the end of the
\* data region and at max_records; a padding record is stepped over and
\* zeroed.
GetRecordLengthVolatile ==
    LET record == RecordAt(ReadIndex)
    IN /\ consumer.pc = "record_length"
       /\ IF \/ consumer.records_read = consumer.max_records
             \/ ReadIndex >= capacity
             \/ record.record_length = 0
          THEN consumer' = [consumer EXCEPT !.pc = "head"] /\ region' = region
          ELSE IF record.message_type_id = PADDING_MSG_TYPE_ID
          THEN /\ consumer' = [consumer EXCEPT !.bytes_read = @ + record.record_length]
               /\ region' = With(region, ReadIndex, ZeroRecord)
          ELSE consumer' = [consumer EXCEPT !.pc = "handler"] /\ region' = region
       /\ UNCHANGED <<conductor, errorLog, driverContext, capacity, tail, head,
                      consumer_heartbeat, producers, written, outcome>>

\* The handler is called with the record, and the record is zeroed when it
\* has returned.
InvokeHandler ==
    LET record == RecordAt(ReadIndex)
    IN /\ consumer.pc = "handler"
       /\ consumer' = [consumer EXCEPT !.pc = "record_length",
                                       !.handled = Append(@, Handled(record)),
                                       !.records_read = @ + 1,
                                       !.bytes_read = @ + record.record_length]
       /\ region' = With(region, ReadIndex, ZeroRecord)
       /\ UNCHANGED <<conductor, errorLog, driverContext, capacity, tail, head,
                      consumer_heartbeat, producers, written, outcome>>

\* The ordered store of the head, moved on by the bytes consumed, and the
\* consumer heartbeat; read returns the number of records handled.
PutHeadOrdered(time) ==
    /\ consumer.pc = "head"
    /\ head' = consumer.head + consumer.bytes_read
    /\ consumer_heartbeat' = time
    /\ consumer' = [NoPass EXCEPT !.handled = consumer.handled]
    /\ outcome' = Outcome("read", 0, 0, <<>>, consumer.records_read, "")
    /\ UNCHANGED <<conductor, errorLog, driverContext, capacity, tail, region,
                   producers, written>>

InitRingBuffer ==
    /\ capacity = 0
    /\ tail = 0
    /\ head = 0
    /\ consumer_heartbeat = 0
    /\ region = <<>>
    /\ producers = [p \in Producers |-> NoWrite]
    /\ consumer = NoPass
    /\ written = [p \in Producers |-> <<>>]
    /\ outcome = Outcome("none", 0, 0, <<>>, 0, "")

\* --------------------------------------- the driver context and the CnC file

\* <limits.h>, and the lengths that aeron_driver_context.c takes from
\* headers of the driver: the trailers of the ring buffer and of the
\* broadcast buffer, and the cache line.
INT32_MAX == 2147483647
AERON_RB_TRAILER_LENGTH == TRAILER_LENGTH
AERON_BROADCAST_BUFFER_TRAILER_LENGTH == 128
AERON_CACHE_LINE_LENGTH == 64
AERON_CNC_VERSION == 7

\* sizeof(aeron_cnc_metadata_t) under #pragma pack(4): six int32 and an int64.
SizeofCncMetadata == 6 * 4 + 8

AERON_CNC_VERSION_AND_META_DATA_LENGTH ==
    AERON_ALIGN(SizeofCncMetadata, AERON_CACHE_LINE_LENGTH * 2)

\* A char * is <<>> when NULL and <<str>> when it points to str.
NULL == <<>>

\* The environment variables the model sets, under the names of their macros,
\* and the values it gives each: lengths in decimal and in hexadecimal, below
\* and above the minimum, and text that is no number.
EnvValues ==
    [AERON_TO_CONDUCTOR_BUFFER_LENGTH_ENV_VAR |-> {"5000", "0x500", "junk"},
     AERON_TO_CLIENTS_BUFFER_LENGTH_ENV_VAR |-> {"5000", "1025"},
     AERON_COUNTERS_VALUES_BUFFER_LENGTH_ENV_VAR |-> {"1025", "4096"},
     AERON_ERROR_BUFFER_LENGTH_ENV_VAR |-> {"1025", "0"},
     AERON_IPC_PUBLICATION_TERM_WINDOW_LENGTH_ENV_VAR |-> {"5000", "010"},
     AERON_DIR_DELETE_ON_START_ENV_VAR |-> {"true", "only"},
     AERON_SEND_TO_STATUS_POLL_RATIO_ENV_VAR |-> {"256"}]

EnvVars == DOMAIN EnvValues

\* The arguments of aeron_config_parse_bool: the six tokens, strings that
\* start with one, strings that do not, and NULL.
BoolStrings ==
    {NULL, <<"1">>, <<"on">>, <<"true">>, <<"0">>, <<"off">>, <<"false">>,
     <<"only">>, <<"10">>, <<"offline">>, <<"yes">>, <<"o">>, <<"">>}

\* The term_length of aeron_ipc_publication_term_window_length.
TermLengths == {1024, 65536}

getenv(var) == IF var \in DOMAIN environment THEN environment[var] ELSE NULL

\* bool aeron_config_parse_bool(const char *str, bool def)
aeron_config_parse_bool(str, def) ==
    IF str # NULL
    THEN IF \/ Strncmp0(str[1], "1", 1)
            \/ Strncmp0(str[1], "on", 2)
            \/ Strncmp0(str[1], "true", 4)
         THEN TRUE
         ELSE IF \/ Strncmp0(str[1], "0", 1)
                 \/ Strncmp0(str[1], "off", 3)
                 \/ Strncmp0(str[1], "false", 5)
         THEN FALSE
         ELSE def
    ELSE def

\* The value of a character as a digit; 99 when it is none.
DigitValue(c) ==
    CASE c = "0" -> 0 [] c = "1" -> 1 [] c = "2" -> 2 [] c = "3" -> 3 [] c = "4" -> 4
      [] c = "5" -> 5 [] c = "6" -> 6 [] c = "7" -> 7 [] c = "8" -> 8 [] c = "9" -> 9
      [] c \in {"a", "A"} -> 10 [] c \in {"b", "B"} -> 11 [] c \in {"c", "C"} -> 12
      [] c \in {"d", "D"} -> 13 [] c \in {"e", "E"} -> 14 [] c \in {"f", "F"} -> 15
      [] OTHER -> 99

CharAt(str, i) == IF i <= Len(str) THEN SubSeq(str, i, i) ELSE ""

\* The digits of str from position i on, in the base, added to value; the
\* conversion ends at the first character that is no digit of the base.
RECURSIVE Digits(_, _, _, _)
Digits(str, i, base, value) ==
    IF DigitValue(CharAt(str, i)) < base
    THEN Digits(str, i + 1, base, value * base + DigitValue(CharAt(str, i)))
    ELSE value

\* strtoull(str, NULL, 0) of a string without white space or sign: "0x" and a
\* hexadecimal digit start a number in base 16, another "0" one in base 8,
\* else the base is 10; a string that starts with no digit gives 0.
strtoull(str) ==
    IF /\ CharAt(str, 1) = "0" /\ CharAt(str, 2) \in {"x", "X"}
       /\ DigitValue(CharAt(str, 3)) < 16
    THEN Digits(str, 3, 16, 0)
    ELSE IF CharAt(str, 1) = "0"
    THEN Digits(str, 1, 8, 0)
    ELSE Digits(str, 1, 10, 0)

\* uint64_t aeron_config_parse_uint64(const char *str, uint64_t def, uint64_t
\* min, uint64_t max). errno is not cleared before strtoull, and strtoull may
\* or may not set EINVAL when it converts nothing: einval is whether errno is
\* EINVAL after the call.
aeron_config_parse_uint64(str, def, min, max, einval) ==
    IF str # NULL
    THEN LET converted == strtoull(str[1])
             value == IF 0 = converted /\ einval THEN def ELSE converted
             result == IF value > max THEN max ELSE value
         IN IF result < min THEN min ELSE result
    ELSE def

\* aeron_driver_context_init: the defaults.
DefaultContext ==
    [dirs_delete_on_start |-> FALSE,
     to_driver_buffer_length |-> 1024 * 1024 + AERON_RB_TRAILER_LENGTH,
     to_clients_buffer_length |-> 1024 * 1024 + AERON_BROADCAST_BUFFER_TRAILER_LENGTH,
     counters_values_buffer_length |-> 1024 * 1024,
     counters_metadata_buffer_length |-> 1024 * 1024 * 2,
     error_buffer_length |-> 1024 * 1024,
     term_buffer_length |-> 16 * 1024 * 1024,
     ipc_term_buffer_length |-> 64 * 1024 * 1024,
     ipc_publication_window_length |-> 0,
     send_to_sm_poll_ratio |-> 4]

\* (uint8_t)value
Uint8(value) == value % 256

\* aeron_driver_context_init: the values set from the environment, in the
\* order of the code; einval is the variables after whose strtoull errno is
\* EINVAL.
ContextFromEnv(einval) ==
    LET parse(var, def, min, max) ==
            aeron_config_parse_uint64(getenv(var), def, min, max, var \in einval)
        counters_values ==
            parse("AERON_COUNTERS_VALUES_BUFFER_LENGTH_ENV_VAR",
                  DefaultContext.counters_values_buffer_length, 1024, INT32_MAX)
    IN [dirs_delete_on_start |->
            aeron_config_parse_bool(getenv("AERON_DIR_DELETE_ON_START_ENV_VAR"),
                                    DefaultContext.dirs_delete_on_start),
        to_driver_buffer_length |->
            parse("AERON_TO_CONDUCTOR_BUFFER_LENGTH_ENV_VAR",
                  DefaultContext.to_driver_buffer_length,
                  1024 + AERON_RB_TRAILER_LENGTH, INT32_MAX),
        to_clients_buffer_length |->
            parse("AERON_TO_CLIENTS_BUFFER_LENGTH_ENV_VAR",
                  DefaultContext.to_clients_buffer_length,
                  1024 + AERON_BROADCAST_BUFFER_TRAILER_LENGTH, INT32_MAX),
        counters_values_buffer_length |-> counters_values,
        counters_metadata_buffer_length |-> counters_values * 2,
        error_buffer_length |->
            parse("AERON_ERROR_BUFFER_LENGTH_ENV_VAR",
                  DefaultContext.error_buffer_length, 1024, INT32_MAX),
        term_buffer_length |->
            parse("AERON_TERM_BUFFER_LENGTH_ENV_VAR",
                  DefaultContext.term_buffer_length, 1024, INT32_MAX),
        ipc_term_buffer_length |->
            parse("AERON_IPC_TERM_BUFFER_LENGTH_ENV_VAR",
                  DefaultContext.ipc_term_buffer_length, 1024, INT32_MAX),
        ipc_publication_window_length |->
            parse("AERON_IPC_PUBLICATION_TERM_WINDOW_LENGTH_ENV_VAR",
                  DefaultContext.ipc_publication_window_length, 0, INT32_MAX),
        send_to_sm_poll_ratio |->
            Uint8(parse("AERON_SEND_TO_STATUS_POLL_RATIO_ENV_VAR",
                        DefaultContext.send_to_sm_poll_ratio, 1, INT32_MAX))]

\* The variables whose strtoull gives 0: the ones for which errno is read.
ZeroVars ==
    {var \in EnvVars : environment[var] # NULL /\ strtoull(environment[var][1]) = 0}

\* A call of a function of the driver context that has returned.
Answer(op, args, result) == [op |-> op, args |-> args, result |-> result]

\* setenv(var, value, 1) before the driver starts.
Setenv(var, value) ==
    /\ context = NULL
    /\ environment' = [environment EXCEPT ![var] = <<value>>]
    /\ UNCHANGED <<conductor, errorLog, ringBuffer, context, metadata, answer>>

\* int aeron_driver_context_init(aeron_driver_context_t **context)
DriverContextInit ==
    /\ context = NULL
    /\ \E einval \in SUBSET ZeroVars : context' = <<ContextFromEnv(einval)>>
    /\ UNCHANGED <<conductor, errorLog, ringBuffer, environment, metadata, answer>>

\* void aeron_driver_fill_cnc_metadata(aeron_driver_context_t *context): the
\* lengths of the context, stored in the header of the CnC file.
FillCncMetadata ==
    /\ context # NULL
    /\ metadata = NULL
    /\ metadata' =
          <<[cnc_version |-> AERON_CNC_VERSION,
             to_driver_buffer_length |-> context[1].to_driver_buffer_length,
             to_clients_buffer_length |-> context[1].to_clients_buffer_length,
             counter_metadata_buffer_length |-> context[1].counters_metadata_buffer_length,
             counter_values_buffer_length |-> context[1].counters_values_buffer_length,
             error_log_buffer_length |-> context[1].error_buffer_length]>>
    /\ UNCHANGED <<conductor, errorLog, ringBuffer, environment, context, answer>>

\* The five regions of the CnC file, as offsets from its start (the address
\* of the metadata).
aeron_cnc_to_driver_buffer(m) == AERON_CNC_VERSION_AND_META_DATA_LENGTH

aeron_cnc_to_clients_buffer(m) ==
    AERON_CNC_VERSION_AND_META_DATA_LENGTH + m.to_driver_buffer_length

aeron_cnc_counters_metadata_buffer(m) ==
    AERON_CNC_VERSION_AND_META_DATA_LENGTH + m.to_driver_buffer_length
        + m.to_clients_buffer_length

\* An accessor that leaves the counter metadata out of the sum.
aeron_cnc_counters_values_buffer_short(m) ==
    AERON_CNC_VERSION_AND_META_DATA_LENGTH + m.to_driver_buffer_length
        + m.to_clients_buffer_length

aeron_cnc_counters_values_buffer(m) ==
    AERON_CNC_VERSION_AND_META_DATA_LENGTH + m.to_driver_buffer_length
        + m.to_clients_buffer_length + m.counter_metadata_buffer_length

aeron_cnc_error_log_buffer(m) ==
    AERON_CNC_VERSION_AND_META_DATA_LENGTH + m.to_driver_buffer_length
        + m.to_clients_buffer_length + m.counter_metadata_buffer_length
        + m.counter_values_buffer_length

aeron_cnc_computed_length(total_length_of_buffers) ==
    AERON_CNC_VERSION_AND_META_DATA_LENGTH + total_length_of_buffers

aeron_cnc_length(c) ==
    aeron_cnc_computed_length(
        c.to_driver_buffer_length + c.to_clients_buffer_length
            + c.counters_metadata_buffer_length + c.counters_values_buffer_length
            + c.error_buffer_length)

\* The driver maps the CnC file: its length from the context, and where each
\* region starts from the metadata.
CncLayout ==
    /\ context # NULL
    /\ metadata # NULL
    /\ answer' = Answer("cnc_layout", <<>>,
                        <<aeron_cnc_to_driver_buffer(metadata[1]),
                          aeron_cnc_to_clients_buffer(metadata[1]),
                          aeron_cnc_counters_metadata_buffer(metadata[1]),
                          aeron_cnc_counters_values_buffer(metadata[1]),
                          aeron_cnc_error_log_buffer(metadata[1]),
                          aeron_cnc_length(context[1])>>)
    /\ UNCHANGED <<conductor, errorLog, ringBuffer, environment, context, metadata>>

\* size_t aeron_ipc_publication_term_window_length(context, term_length)
aeron_ipc_publication_term_window_length(c, term_length) ==
    IF 0 = c.ipc_publication_window_length
    THEN IF term_length < c.ipc_publication_window_length
         THEN term_length
         ELSE c.ipc_publication_window_length
    ELSE term_length

IpcPublicationTermWindowLength(term_length) ==
    /\ context # NULL
    /\ answer' = Answer("ipc_publication_term_window_length", <<term_length>>,
                        <<aeron_ipc_publication_term_window_length(context[1],
                                                                   term_length)>>)
    /\ UNCHANGED <<conductor, errorLog, ringBuffer, environment, context, metadata>>

ConfigParseBool(str, def) ==
    /\ answer' = Answer("config_parse_bool", <<str, def>>,
                        <<aeron_config_parse_bool(str, def)>>)
    /\ UNCHANGED <<conductor, errorLog, ringBuffer, environment, context, metadata>>

\* --------------------------------------------- callbacks that re-enter

\* The call a user callback makes on the conductor from inside the operation
\* that invoked it. m_adminLock is a std::recursive_mutex, so the thread that
\* holds it is let in again.
NoCall == [call |-> "none", registrationId |-> 0, streamId |-> 0]

ReentrantCalls ==
    {[call |-> "releaseSubscription", registrationId |-> id, streamId |-> 0] :
        id \in RegistrationIds}
      \cup {[call |-> "addSubscription", registrationId |-> 0, streamId |-> s] :
        s \in Streams}

\* The conductor as an operation under way has it: the subscriptions table,
\* the proxy's next id, the live Subscription objects, the linger lists and
\* the trace, the call its callback has still to make, whether an iterator
\* the operation holds has been invalidated, and whether it has been used
\* since.
UnderWay(table, next, subs, l, inner) ==
    [table |-> table, next |-> next, subscriptions |-> subs, l |-> l,
     inner |-> inner, invalid |-> FALSE, used |-> FALSE]

\* The callback's call, made while the enclosing operation holds the iterator
\* at index it (and end() when holdsEnd). addSubscription is emplace_back:
\* end() is invalidated, and every iterator when the vector reallocates.
\* releaseSubscription(id, nullptr, 0) is erase: every iterator at or after
\* the erased entry, end() included, is invalidated.
Reenter(acc, it, holdsEnd, reallocates) ==
    LET inner == acc.inner
        found == FindByRegistrationId(acc.table, inner.registrationId)
    IN IF inner.call = "addSubscription"
       THEN [acc EXCEPT
                !.table = Append(@, SubscriptionStateDefn("aeron:ipc", acc.next,
                                                          inner.streamId, now)),
                !.next = @ + 1,
                !.l.trace = Append(@, Ev("AddSubscription", acc.next, NoImage)),
                !.inner = NoCall,
                !.invalid = @ \/ holdsEnd \/ reallocates]
       ELSE IF inner.call = "releaseSubscription" /\ found # 0
       THEN [acc EXCEPT
                !.table = Erase(@, found),
                !.l.trace = @ \o VerifyDriverIsActiveViaErrorHandler
                              \o <<Ev("RemoveSubscription", inner.registrationId, NoImage),
                                   Ev("erase", inner.registrationId, NoImage)>>,
                !.inner = NoCall,
                !.invalid = @ \/ holdsEnd \/ found <= it]
       ELSE [acc EXCEPT
                !.l.trace = @ \o VerifyDriverIsActiveViaErrorHandler,
                !.inner = NoCall]

\* The enclosing operation goes on with the iterator at index it after a
\* callback has returned.
UseIterator(acc, it) ==
    IF acc.invalid /\ ~acc.used
    THEN [acc EXCEPT !.used = TRUE,
                     !.l.trace = Append(@, Ev("invalidIterator", it, NoImage))]
    ELSE acc

\* std::for_each of onAvailableImage from index i to last, the end() taken
\* before the loop, with a handler that re-enters at its first call. Using an
\* invalidated iterator is undefined: the loop either stops there or goes on
\* by position until it leaves the vector.
RECURSIVE OnAvailableImageReenteringFrom(_, _, _, _, _, _)
OnAvailableImageReenteringFrom(i, last, acc, e, reallocates, continues) ==
    LET at == UseIterator(acc, i)
    IN IF at.used /\ (~continues \/ i > Len(at.table)) THEN at
       ELSE IF i = last THEN at
       ELSE LET entry == at.table[i]
            IN IF TakesImage(entry, at.subscriptions, e)
               THEN LET id == entry.m_subscription
                        logBuffers == LogBuffers(e.logFilename, entry.m_registrationId,
                                                 e.correlationId)
                        image == Image(e.sessionId, e.correlationId,
                                       at.subscriptions[id].registrationId,
                                       e.sourceIdentity, e.subscriberPositionIndicatorId,
                                       logBuffers)
                        called == [at EXCEPT !.l.trace =
                                      Append(@, Ev("onAvailableImageHandler",
                                                   entry.m_registrationId, image))]
                        back == IF called.inner = NoCall THEN called
                                ELSE Reenter(called, i, TRUE, reallocates)
                        added == AddImage(back.subscriptions[id], image)
                        stored == [back EXCEPT
                                      !.subscriptions = With(@, id, added.subscription),
                                      !.l.trace = Append(@, Ev("addImage", id, image))]
                        lingered == IF added.oldArray = 0 THEN stored
                                    ELSE [stored EXCEPT
                                             !.l = LingerImageArray(@, now, added.oldArray)]
                    IN OnAvailableImageReenteringFrom(i + 1, last, lingered, e,
                                                      reallocates, continues)
               ELSE OnAvailableImageReenteringFrom(i + 1, last, at, e,
                                                   reallocates, continues)

\* onAvailableImage with an available-image handler that calls inner on the
\* conductor the first time it is invoked.
OnAvailableImageReentering(e, inner) ==
    \E reallocates, continues \in BOOLEAN :
        LET r == OnAvailableImageReenteringFrom(1, Len(m_subscriptions) + 1,
                     UnderWay(m_subscriptions, nextCorrelationId, subscriptions,
                              Lingering(m_lingeringLogBuffers, m_lingeringImageArrays, <<>>),
                              inner),
                     e, reallocates, continues)
        IN /\ inner.call = "addSubscription" => DriverIsActive /\ CanRegister
           /\ r.inner = NoCall
           /\ WithinLinger(r.l)
           /\ m_subscriptions' = r.table
           /\ nextCorrelationId' = r.next
           /\ subscriptions' = Surviving(r.table, r.subscriptions)
           /\ m_lingeringLogBuffers' = r.l.logBuffers
           /\ m_lingeringImageArrays' = r.l.arrays
           /\ ret' = Returned("onAvailableImage", "", e.streamId, e.correlationId,
                              e.subscriberPositionRegistrationId, r.l.trace)
           /\ UNCHANGED <<m_publications, m_exclusivePublications, publications,
                          m_driverActive, now>>

\* The loop of releaseSubscription over images[i..] with the iterator it, and
\* what follows it: erase(it) and lingerResources.
RECURSIVE ReleaseSubscriptionReenteringFrom(_, _, _, _, _, _, _)
ReleaseSubscriptionReenteringFrom(i, it, acc, images, array, reallocates, continues) ==
    LET at == IF i = 1 THEN acc ELSE UseIterator(acc, it)
    IN IF at.used /\ (~continues \/ it > Len(at.table)) THEN at
       ELSE IF i > Len(images)
       THEN LET erased == [at EXCEPT
                              !.l.trace = Append(@, Ev("erase", at.table[it].m_registrationId,
                                                       NoImage)),
                              !.table = Erase(@, it)]
            IN [erased EXCEPT !.l = LingerResources(@, now, images, array)]
       ELSE LET called == [at EXCEPT !.l.trace =
                              Append(@, Ev("onUnavailableImageHandler",
                                           at.table[it].m_registrationId, images[i]))]
                back == IF called.inner = NoCall THEN called
                        ELSE Reenter(called, it, FALSE, reallocates)
            IN ReleaseSubscriptionReenteringFrom(i + 1, it, back, images, array,
                                                 reallocates, continues)

\* releaseSubscription by the owner of a Subscription that holds an image,
\* with an unavailable-image handler that calls inner on the conductor the
\* first time it is invoked.
ReleaseSubscriptionReentering(registrationId, inner) ==
    \E reallocates, continues \in BOOLEAN :
        LET it == FindByRegistrationId(m_subscriptions, registrationId)
            sub == IF it = 0 THEN 0
                   ELSE Lock(m_subscriptions[it].m_subscription, subscriptions)
            images == IF sub = 0 THEN <<>> ELSE subscriptions[sub].images
            array == IF sub = 0 THEN 0 ELSE subscriptions[sub].array
            before == VerifyDriverIsActiveViaErrorHandler
                        \o <<Ev("RemoveSubscription", registrationId, NoImage)>>
            r == ReleaseSubscriptionReenteringFrom(1, it,
                     UnderWay(m_subscriptions, nextCorrelationId, subscriptions,
                              Lingering(m_lingeringLogBuffers, m_lingeringImageArrays, before),
                              inner),
                     images, array, reallocates, continues)
        IN /\ it # 0
           /\ Len(images) > 0
           /\ inner.call = "addSubscription" => DriverIsActive /\ CanRegister
           /\ WithinLinger(r.l)
           /\ m_subscriptions' = r.table
           /\ nextCorrelationId' = r.next
           /\ subscriptions' = Surviving(r.table, Without(r.subscriptions, sub))
           /\ m_lingeringLogBuffers' = r.l.logBuffers
           /\ m_lingeringImageArrays' = r.l.arrays
           /\ ret' = Returned("releaseSubscription", "", 0, registrationId, 0, r.l.trace)
           /\ UNCHANGED <<m_publications, m_exclusivePublications, publications,
                          m_driverActive, now>>

InitDriverContext ==
    /\ environment = [var \in EnvVars |-> NULL]
    /\ context = NULL
    /\ metadata = NULL
    /\ answer = Answer("none", <<>>, <<>>)

Init ==
    /\ m_publications = <<>>
    /\ m_exclusivePublications = <<>>
    /\ m_subscriptions = <<>>
    /\ m_lingeringLogBuffers = <<>>
    /\ m_lingeringImageArrays = <<>>
    /\ m_driverActive = TRUE
    /\ nextCorrelationId = 1
    /\ now = 0
    /\ publications = <<>>
    /\ subscriptions = <<>>
    /\ ret = Returned("init", "", 0, 0, 0, <<>>)
    /\ InitErrorLog
    /\ InitRingBuffer
    /\ InitDriverContext

\* The application's calls on publications and exclusive publications.
PublicationCalls ==
    \/ \E c \in Channels, s \in Streams : AddPublication(c, s) /\ UNCHANGED <<errorLog, ringBuffer, driverContext>>
    \/ \E id \in RegistrationIds : FindPublication(id) /\ UNCHANGED <<errorLog, ringBuffer, driverContext>>
    \/ \E id \in RegistrationIds : ReleasePublication(id) /\ UNCHANGED <<errorLog, ringBuffer, driverContext>>
    \/ \E c \in Channels, s \in Streams : AddExclusivePublication(c, s) /\ UNCHANGED <<errorLog, ringBuffer, driverContext>>
    \/ \E id \in RegistrationIds : FindExclusivePublication(id) /\ UNCHANGED <<errorLog, ringBuffer, driverContext>>
    \/ \E id \in RegistrationIds : ReleaseExclusivePublication(id) /\ UNCHANGED <<errorLog, ringBuffer, driverContext>>
    \/ \E h \in RegistrationIds : DropPublication(h) /\ UNCHANGED <<errorLog, ringBuffer, driverContext>>

\* The application's calls on subscriptions.
SubscriptionCalls ==
    \/ \E c \in Channels, s \in Streams : AddSubscription(c, s) /\ UNCHANGED <<errorLog, ringBuffer, driverContext>>
    \/ \E id \in RegistrationIds : FindSubscription(id) /\ UNCHANGED <<errorLog, ringBuffer, driverContext>>
    \/ \E id \in RegistrationIds : ReleaseSubscription(id) /\ UNCHANGED <<errorLog, ringBuffer, driverContext>>

\* The driver's answers to publication commands.
PublicationEvents ==
    \/ \E e \in NewPublications : OnNewPublication(e) /\ UNCHANGED <<errorLog, ringBuffer, driverContext>>
    \/ \E e \in NewPublications : OnNewExclusivePublication(e) /\ UNCHANGED <<errorLog, ringBuffer, driverContext>>

\* The driver's answers to any command.
RegistrationEvents ==
    \/ \E id \in RegistrationIds : OnOperationSuccess(id) /\ UNCHANGED <<errorLog, ringBuffer, driverContext>>
    \/ \E id \in RegistrationIds, c \in ErrorCodes, m \in ErrorMessages :
          OnErrorResponse(id, c, m) /\ UNCHANGED <<errorLog, ringBuffer, driverContext>>

\* The driver's image events and the sweep of the linger lists.
ImageEvents ==
    \/ \E e \in AvailableImages : OnAvailableImage(e) /\ UNCHANGED <<errorLog, ringBuffer, driverContext>>
    \/ \E s \in Streams, c \in ImageCorrelationIds : OnUnavailableImage(s, c) /\ UNCHANGED <<errorLog, ringBuffer, driverContext>>
    \/ OnCheckManagedResources /\ UNCHANGED <<errorLog, ringBuffer, driverContext>>

Next ==
    \/ PublicationCalls
    \/ SubscriptionCalls
    \/ PublicationEvents
    \/ RegistrationEvents
    \/ ImageEvents
    \/ OnInterServiceTimeout /\ UNCHANGED <<errorLog, ringBuffer, driverContext>>
    \/ Tick /\ UNCHANGED <<errorLog, ringBuffer, driverContext>>
    \/ DriverInactive /\ UNCHANGED <<errorLog, ringBuffer, driverContext>>

Spec == Init /\ [][Next]_vars

\* The publications table alone. No action that is left out writes
\* m_publications, a Publication handle, the driver's liveness or the clock;
\* the other tables only take registration ids of their own from the proxy.
NextPublications ==
    \/ \E c \in Channels, s \in Streams : AddPublication(c, s) /\ UNCHANGED <<errorLog, ringBuffer, driverContext>>
    \/ \E id \in RegistrationIds : FindPublication(id) /\ UNCHANGED <<errorLog, ringBuffer, driverContext>>
    \/ \E id \in RegistrationIds : ReleasePublication(id) /\ UNCHANGED <<errorLog, ringBuffer, driverContext>>
    \/ \E h \in RegistrationIds : DropPublication(h) /\ UNCHANGED <<errorLog, ringBuffer, driverContext>>
    \/ \E e \in NewPublications : OnNewPublication(e) /\ UNCHANGED <<errorLog, ringBuffer, driverContext>>
    \/ \E id \in RegistrationIds, c \in ErrorCodes, m \in ErrorMessages :
          OnErrorResponse(id, c, m) /\ UNCHANGED <<errorLog, ringBuffer, driverContext>>
    \/ OnInterServiceTimeout /\ UNCHANGED <<errorLog, ringBuffer, driverContext>>
    \/ Tick /\ UNCHANGED <<errorLog, ringBuffer, driverContext>>
    \/ DriverInactive /\ UNCHANGED <<errorLog, ringBuffer, driverContext>>

SpecPublications == Init /\ [][NextPublications]_vars

\* The subscriptions, their images and the linger lists alone. No action that
\* is left out writes a subscription, an image set or a linger list.
NextImages ==
    \/ \E s \in Streams : AddSubscription("aeron:ipc", s) /\ UNCHANGED <<errorLog, ringBuffer, driverContext>>
    \/ \E id \in RegistrationIds : FindSubscription(id) /\ UNCHANGED <<errorLog, ringBuffer, driverContext>>
    \/ \E id \in RegistrationIds : ReleaseSubscription(id) /\ UNCHANGED <<errorLog, ringBuffer, driverContext>>
    \/ \E id \in RegistrationIds : OnOperationSuccess(id) /\ UNCHANGED <<errorLog, ringBuffer, driverContext>>
    \/ ImageEvents
    \/ OnInterServiceTimeout /\ UNCHANGED <<errorLog, ringBuffer, driverContext>>
    \/ Tick /\ UNCHANGED <<errorLog, ringBuffer, driverContext>>

SpecImages == Init /\ [][NextImages]_vars

\* The subscriptions with user callbacks that call back into the conductor.
NextReentrancy ==
    \/ \E s \in Streams : AddSubscription("aeron:ipc", s) /\ UNCHANGED <<errorLog, ringBuffer, driverContext>>
    \/ \E id \in RegistrationIds : OnOperationSuccess(id) /\ UNCHANGED <<errorLog, ringBuffer, driverContext>>
    \/ \E id \in RegistrationIds : FindSubscription(id) /\ UNCHANGED <<errorLog, ringBuffer, driverContext>>
    \/ \E e \in AvailableImages : OnAvailableImage(e) /\ UNCHANGED <<errorLog, ringBuffer, driverContext>>
    \/ \E e \in AvailableImages, inner \in ReentrantCalls :
          OnAvailableImageReentering(e, inner) /\ UNCHANGED <<errorLog, ringBuffer, driverContext>>
    \/ \E id \in RegistrationIds, inner \in ReentrantCalls :
          ReleaseSubscriptionReentering(id, inner) /\ UNCHANGED <<errorLog, ringBuffer, driverContext>>

SpecReentrancy == Init /\ [][NextReentrancy]_vars

\* The registrations of the three tables and the driver's answers to them.
NextRegistrations ==
    \/ \E c \in Channels, s \in Streams : AddPublication(c, s) /\ UNCHANGED <<errorLog, ringBuffer, driverContext>>
    \/ \E c \in Channels, s \in Streams : AddExclusivePublication(c, s) /\ UNCHANGED <<errorLog, ringBuffer, driverContext>>
    \/ \E c \in Channels, s \in Streams : AddSubscription(c, s) /\ UNCHANGED <<errorLog, ringBuffer, driverContext>>
    \/ \E id \in RegistrationIds : FindSubscription(id) /\ UNCHANGED <<errorLog, ringBuffer, driverContext>>
    \/ \E id \in RegistrationIds : ReleaseSubscription(id) /\ UNCHANGED <<errorLog, ringBuffer, driverContext>>
    \/ \E id \in RegistrationIds : ReleaseExclusivePublication(id) /\ UNCHANGED <<errorLog, ringBuffer, driverContext>>
    \/ \E id \in RegistrationIds : OnOperationSuccess(id) /\ UNCHANGED <<errorLog, ringBuffer, driverContext>>
    \/ \E id \in RegistrationIds, c \in ErrorCodes, m \in ErrorMessages :
          OnErrorResponse(id, c, m) /\ UNCHANGED <<errorLog, ringBuffer, driverContext>>
    \/ DriverInactive /\ UNCHANGED <<errorLog, ringBuffer, driverContext>>

SpecRegistrations == Init /\ [][NextRegistrations]_vars

\* The statements of a call of record by thread t, after the call is made.
RecordSteps(t) ==
    \/ LoadNumObservations(t)
    \/ LoadObservations(t)
    \/ MutexLock(t)
    \/ NewObservation(t)
    \/ CopyEncodedError(t)
    \/ StoreFirstObservationTimestamp(t)
    \/ StoreObservationCount(t)
    \/ StoreNextOffset(t)
    \/ StoreObservations(t)
    \/ StoreNumObservations(t)
    \/ PutOrderedLength(t)
    \/ LingerResource(t)
    \/ MutexUnlock(t)
    \/ GetAndAddObservationCount(t)
    \/ PutOrderedLastObservationTimestamp(t)

\* The statements of a read.
ReadSteps ==
    \/ ReadLength
    \/ ReadLastObservationTimestamp
    \/ CallReader

\* The error log used by one thread that records and reads in turn.
NextErrorLog ==
    \/ \E c \in ObservedErrorCodes, d \in Descriptions, m \in Messages :
          reader.pc = "idle" /\ Record(1, c, d, m)
    \/ RecordSteps(1)
    \/ \E since \in SinceTimestamps : pc[1] = "idle" /\ ErrorLogRead(since)
    \/ ReadSteps
    \/ ClockTick

SpecErrorLog == Init /\ [][NextErrorLog]_vars

\* The error log under two recording threads and a reader of the buffer, all
\* running at once.
NextErrorLogThreads ==
    \/ \E t \in Writers, c \in ObservedErrorCodes : Record(t, c, "disk full", "a")
    \/ \E t \in Writers : RecordSteps(t)
    \/ ErrorLogRead(0)
    \/ ReadSteps
    \/ ClockTick

SpecErrorLogThreads == Init /\ [][NextErrorLogThreads]_vars

\* The steps of a write by producer p, after the call is made.
WriteSteps(p) ==
    \/ LoadHead(p)
    \/ LoadTail(p)
    \/ CompareAndSetTail(p)
    \/ WritePadding(p)
    \/ WriteHeader(p)
    \/ WritePayload(p)
    \/ PutRecordLengthOrdered(p)

\* The steps of a read pass, after the call is made.
PassSteps ==
    \/ GetRecordLengthVolatile
    \/ InvokeHandler
    \/ \E time \in HeartbeatTimes : PutHeadOrdered(time)

\* Calls of write so far that passed the check of their arguments.
Claimed == Len(written[1]) + Len(written[2]) + Writes

\* The ring buffer used by one thread that constructs it, writes and reads
\* in turn: any region length, type and payload.
NextRingBuffer ==
    \/ \E size \in BufferSizes : Construct(size)
    \/ \E t \in MsgTypeIds, src \in Payloads :
          consumer.pc = "idle" /\ Claimed < MaxWrites /\ Write(1, t, src)
    \/ WriteSteps(1)
    \/ \E limit \in ReadLimits : producers[1].pc = "idle" /\ Read(limit)
    \/ PassSteps

SpecRingBuffer == Init /\ [][NextRingBuffer]_vars

\* The ring buffer of capacity 64 under two producers, each writing its
\* records in order and calling write again for one that did not fit, and a
\* consumer, all running at once.
NextRingBufferThreads ==
    \/ Construct(64 + TRAILER_LENGTH)
    \/ \E p \in Producers :
          /\ Len(written[p]) < RecordsPerProducer
          /\ Write(p, TypeOf(p, Len(written[p]) + 1), PayloadOf(p, Len(written[p]) + 1))
    \/ \E p \in Producers : WriteSteps(p)
    \/ Read(8)
    \/ PassSteps

SpecRingBufferThreads == Init /\ [][NextRingBufferThreads]_vars

\* The same with every producer and the consumer scheduled again and again:
\* a producer goes on calling write until its records are written, and the
\* consumer goes on reading.
\* The driver: the environment is set, the context initialised from it, the
\* CnC file laid out, and the functions of the context called.
NextDriverContext ==
    \/ \E var \in EnvVars : \E value \in EnvValues[var] : Setenv(var, value)
    \/ DriverContextInit
    \/ FillCncMetadata
    \/ CncLayout
    \/ \E term_length \in TermLengths : IpcPublicationTermWindowLength(term_length)
    \/ \E str \in BoolStrings : \E def \in BOOLEAN : ConfigParseBool(str, def)

SpecDriverContext == Init /\ [][NextDriverContext]_vars

FairRingBufferThreads ==
    /\ SpecRingBufferThreads
    /\ WF_vars(Construct(64 + TRAILER_LENGTH))
    /\ \A p \in Producers :
          WF_vars(\/ /\ Len(written[p]) < RecordsPerProducer
                     /\ Write(p, TypeOf(p, Len(written[p]) + 1),
                              PayloadOf(p, Len(written[p]) + 1))
                  \/ WriteSteps(p))
    /\ WF_vars(Read(8) \/ PassSteps)

\* ------------------------------------------------------------ properties

Count(list, x) == Cardinality({i \in 1..Len(list) : list[i] = x})

CountEv(trace, name) == Cardinality({k \in 1..Len(trace) : trace[k].ev = name})

\* The indexes of the records of the publications table for (channel, stream).
RecordsFor(table, channel, streamId) ==
    {i \in 1..Len(table) : table[i].m_channel = channel /\ table[i].m_streamId = streamId}

\* C1: an addPublication for a (channel, stream) that already has a record
\* sends no command to the driver and leaves the table as it was, with one
\* record for the pair; when it passes the liveness check it returns that
\* record's registration id, and it fails only by that check.
C1_DuplicateAddReturnsExisting ==
    [][ret'.op = "addPublication" =>
        \A i \in RecordsFor(m_publications, ret'.channel, ret'.streamId) :
            /\ ret'.trace = <<>>
            /\ m_publications' = m_publications
            /\ nextCorrelationId' = nextCorrelationId
            /\ RecordsFor(m_publications', ret'.channel, ret'.streamId) = {i}
            /\ IF m_driverActive
               THEN ret'.ex = "" /\ ret'.result = m_publications[i].m_registrationId
               ELSE ret'.ex = "DriverTimeoutException"]_vars

\* A duplicate add has returned the id of the second of two records.
C1_Witness ==
    /\ ret.op = "addPublication"
    /\ ret.ex = ""
    /\ ret.trace = <<>>
    /\ Len(m_publications) = 2
    /\ ret.result = m_publications[2].m_registrationId
    /\ RecordsFor(m_publications, ret.channel, ret.streamId) = {2}

\* C2 (as stated): the find that follows onErrorResponse(id, code, message)
\* for a record of the table fails with a RegistrationException carrying that
\* code and message.
C2_FindAfterErrorFails ==
    [][(/\ ret.op = "onErrorResponse"
        /\ FindByRegistrationId(m_publications, ret.id) # 0
        /\ ret'.op = "findPublication"
        /\ ret'.id = ret.id)
       => (/\ ret'.ex = "RegistrationException"
           /\ ret'.exCode = ret.exCode
           /\ ret'.exMsg = ret.exMsg)]_vars

\* C3 (as stated): once a find has surfaced a registration error, the record
\* is no longer in its table.
C3_ErroredRecordRemoved ==
    (ret.op = "findPublication" /\ ret.ex = "RegistrationException")
        => FindByRegistrationId(m_publications, ret.id) = 0

\* C4: a find on an Awaiting record leaves the record in the table; it
\* returns nothing while now <= registration time + driver timeout and fails
\* with DriverTimeoutException once now is past it, and a find that follows a
\* timed-out find of the same id fails the same way.
C4_AwaitingFind ==
    [][ret'.op = "findPublication" =>
        /\ \A i \in 1..Len(m_publications) :
              (/\ m_publications[i].m_registrationId = ret'.id
               /\ m_publications[i].m_status = AWAITING_MEDIA_DRIVER)
              => /\ m_publications' = m_publications
                 /\ publications' = publications
                 /\ IF now > m_publications[i].m_timeOfRegistration + m_driverTimeoutMs
                    THEN ret'.ex = "DriverTimeoutException"
                    ELSE ret'.ex = "" /\ ret'.result = 0
        /\ (ret.op = "findPublication" /\ ret.ex = "DriverTimeoutException"
                /\ ret.id = ret'.id)
              => ret'.ex = "DriverTimeoutException"]_vars

\* A find has timed out on a record that is still in the table, Awaiting.
C4_Witness ==
    /\ ret.op = "findPublication"
    /\ ret.ex = "DriverTimeoutException"
    /\ \E i \in 1..Len(m_publications) :
          /\ m_publications[i].m_registrationId = ret.id
          /\ m_publications[i].m_status = AWAITING_MEDIA_DRIVER
          /\ now = m_publications[i].m_timeOfRegistration + m_driverTimeoutMs + 1

\* C5 (as stated): onInterServiceTimeout leaves the three tables empty, and
\* the add that follows it fails: it creates no record and sends no command.
C5_TerminalAfterTimeout ==
    [][/\ ret'.op = "onInterServiceTimeout" =>
            (m_publications' = <<>> /\ m_exclusivePublications' = <<>>
                /\ m_subscriptions' = <<>>)
       /\ (ret.op = "onInterServiceTimeout" /\ ret'.op = "addPublication") =>
            (ret'.ex # "" /\ ret'.trace = <<>> /\ m_publications' = <<>>)]_vars

\* The registration ids whose record is in the table with its handle alive.
LiveRecords(table, objects) ==
    {table[i].m_registrationId : i \in {j \in 1..Len(table) :
        Lock(table[j].m_publication, objects) # 0}}

\* The records whose handle stays alive over a step and that the step takes
\* out of the publications table.
RemovedWhileLive ==
    {id \in LiveRecords(m_publications, publications) :
        /\ id \in DOMAIN publications'
        /\ FindByRegistrationId(m_publications', id) = 0}

\* C6 (as stated): no call or driver event but onInterServiceTimeout takes a
\* record out of the table while its handle is alive.
C6_LiveRecordStays ==
    [][RemovedWhileLive # {} => ret'.op = "onInterServiceTimeout"]_vars

\* C6 (amended): a record whose handle is alive leaves the publications table
\* only by releasePublication of its own registration id or by
\* onInterServiceTimeout.
C6_LiveRecordLeavesByOwnRelease ==
    [][\A id \in RemovedWhileLive :
          \/ ret'.op = "onInterServiceTimeout"
          \/ ret'.op = "releasePublication" /\ ret'.id = id]_vars

\* releasePublication has erased a record whose handle is still alive, with
\* another record left in the table.
C6_Witness ==
    /\ ret.op = "releasePublication"
    /\ ret.id \in DOMAIN publications
    /\ ~publications[ret.id].closed
    /\ FindByRegistrationId(m_publications, ret.id) = 0
    /\ Len(m_publications) = 1

\* C7: onCheckManagedResources keeps each entry of both linger lists for
\* which now <= time of lingering + linger timeout and removes each entry for
\* which now is past it; no other operation removes an entry.
C7_LingerSweep ==
    [][/\ \A x \in Range(m_lingeringLogBuffers) :
            IF ret'.op = "onCheckManagedResources"
                /\ now > x.m_timeOfLastStatusChange + m_resourceLingerTimeoutMs
            THEN Count(m_lingeringLogBuffers', x) = 0
            ELSE Count(m_lingeringLogBuffers', x) >= Count(m_lingeringLogBuffers, x)
       /\ \A x \in Range(m_lingeringImageArrays) :
            IF ret'.op = "onCheckManagedResources"
                /\ now > x.m_timeOfLastStatusChange + m_resourceLingerTimeoutMs
            THEN Count(m_lingeringImageArrays', x) = 0
            ELSE Count(m_lingeringImageArrays', x) >= Count(m_lingeringImageArrays, x)
       /\ ret'.op = "onCheckManagedResources" =>
            /\ Len(m_lingeringLogBuffers') <= Len(m_lingeringLogBuffers)
            /\ Len(m_lingeringImageArrays') <= Len(m_lingeringImageArrays)]_vars

\* A sweep has kept log buffers whose linger ends at this very instant.
C7_Witness ==
    /\ ret.op = "onCheckManagedResources"
    /\ \E x \in Range(m_lingeringLogBuffers) :
          now = x.m_timeOfLastStatusChange + m_resourceLingerTimeoutMs

\* The images a step of the conductor takes out of a living subscription, or
\* takes out of reach with the subscription itself.
ImagesLeaving ==
    UNION {{image \in Range(subscriptions[h].images) :
               \/ h \notin DOMAIN subscriptions'
               \/ \A k \in 1..Len(subscriptions'[h].images) :
                     subscriptions'[h].images[k].correlationId # image.correlationId} :
           h \in DOMAIN subscriptions}

\* C8: in every step, the log buffers of each image that leaves a
\* subscription are put on the linger list in that step, at the current time;
\* the steps in which an image leaves are those of onUnavailableImage,
\* releaseSubscription and onInterServiceTimeout.
C8_LeavingImagesLinger ==
    [][\A image \in ImagesLeaving :
          LET x == LogBuffersLingerDefn(now, image.logBuffers)
          IN /\ Count(m_lingeringLogBuffers', x) = Count(m_lingeringLogBuffers, x) + 1
             /\ ret'.op \in {"onUnavailableImage", "releaseSubscription",
                             "onInterServiceTimeout"}]_vars

\* onInterServiceTimeout has lingered the log buffers of an image it removed.
C8_Witness ==
    /\ ret.op = "onInterServiceTimeout"
    /\ CountEv(ret.trace, "lingerLogBuffers") >= 1
    /\ Len(m_lingeringLogBuffers) >= 1
    /\ m_lingeringLogBuffers[Len(m_lingeringLogBuffers)].m_timeOfLastStatusChange = now

\* The subscriptions an onAvailableImage(stream, correlation id, position
\* registration id) is for: Registered with a live handle, on that stream,
\* with that registration id, not yet holding the image.
Addressed(streamId, correlationId, registrationId) ==
    {i \in 1..Len(m_subscriptions) :
        /\ m_subscriptions[i].m_status = REGISTERED_MEDIA_DRIVER
        /\ m_subscriptions[i].m_streamId = streamId
        /\ m_subscriptions[i].m_registrationId = registrationId
        /\ m_subscriptions[i].m_subscription \in DOMAIN subscriptions
        /\ \A k \in 1..Len(subscriptions[m_subscriptions[i].m_subscription].images) :
              subscriptions[m_subscriptions[i].m_subscription].images[k].correlationId
                  # correlationId}

\* The subscriptions with a live handle on a stream that hold the image.
Holding(streamId, correlationId) ==
    {i \in 1..Len(m_subscriptions) :
        /\ m_subscriptions[i].m_streamId = streamId
        /\ m_subscriptions[i].m_subscription \in DOMAIN subscriptions
        /\ \E k \in 1..Len(subscriptions[m_subscriptions[i].m_subscription].images) :
              subscriptions[m_subscriptions[i].m_subscription].images[k].correlationId
                  = correlationId}

HandlerCalls(trace, name, registrationId, correlationId) ==
    Cardinality({k \in 1..Len(trace) :
        /\ trace[k].ev = name
        /\ trace[k].id = registrationId
        /\ trace[k].image.correlationId = correlationId})

\* C9: onAvailableImage calls the available-image handler of a Registered
\* subscription with a live handle that it is addressed to exactly once and
\* leaves the subscription holding the image; onUnavailableImage for a held
\* image calls the unavailable-image handler exactly once and leaves the
\* subscription without the image. Hence the pair, one after the other, calls
\* each handler once and ends with the image gone.
C9_AvailableThenUnavailable ==
    [][/\ ret'.op = "onAvailableImage" =>
            \A i \in Addressed(ret'.streamId, ret'.id, ret'.result) :
                LET sub == m_subscriptions[i].m_subscription
                IN /\ HandlerCalls(ret'.trace, "onAvailableImageHandler",
                                   m_subscriptions[i].m_registrationId, ret'.id) = 1
                   /\ CountEv(ret'.trace, "onAvailableImageHandler") = 1
                   /\ sub \in DOMAIN subscriptions'
                   /\ \E k \in 1..Len(subscriptions'[sub].images) :
                         subscriptions'[sub].images[k].correlationId = ret'.id
       /\ ret'.op = "onUnavailableImage" =>
            \A i \in Holding(ret'.streamId, ret'.id) :
                LET sub == m_subscriptions[i].m_subscription
                IN /\ HandlerCalls(ret'.trace, "onUnavailableImageHandler",
                                   m_subscriptions[i].m_registrationId, ret'.id) = 1
                   /\ sub \in DOMAIN subscriptions'
                   /\ \A k \in 1..Len(subscriptions'[sub].images) :
                         subscriptions'[sub].images[k].correlationId # ret'.id]_vars

\* onUnavailableImage has called the handler of a subscription once, and the
\* subscription is alive without the image.
C9_Witness ==
    /\ ret.op = "onUnavailableImage"
    /\ CountEv(ret.trace, "onUnavailableImageHandler") = 1
    /\ \E i \in 1..Len(m_subscriptions) :
          /\ m_subscriptions[i].m_streamId = ret.streamId
          /\ m_subscriptions[i].m_subscription \in DOMAIN subscriptions
          /\ subscriptions[m_subscriptions[i].m_subscription].images = <<>>
          /\ HandlerCalls(ret.trace, "onUnavailableImageHandler",
                          m_subscriptions[i].m_registrationId, ret.id) = 1

\* C10: the available-image handler is called before the image is in the
\* subscription's set: addImage of that image follows the call at once; the
\* unavailable-image handler is called after the image was removed from the
\* set and its log buffers and the old array were lingered, in that order.
C10_HandlerOrdering ==
    [][/\ ret'.op = "onAvailableImage" =>
            \A k \in 1..Len(ret'.trace) :
                ret'.trace[k].ev = "onAvailableImageHandler" =>
                    /\ k < Len(ret'.trace)
                    /\ ret'.trace[k + 1] = Ev("addImage", ret'.trace[k].id, ret'.trace[k].image)
                    /\ \A j \in 1..(k - 1) :
                          ~(ret'.trace[j].ev = "addImage" /\ ret'.trace[j].id = ret'.trace[k].id)
                    /\ ret'.trace[k].image \notin Range(subscriptions[ret'.trace[k].id].images)
                    /\ ret'.trace[k].image \in Range(subscriptions'[ret'.trace[k].id].images)
       /\ ret'.op = "onUnavailableImage" =>
            \A k \in 1..Len(ret'.trace) :
                ret'.trace[k].ev = "onUnavailableImageHandler" =>
                    /\ k > 3
                    /\ ret'.trace[k - 3] = Ev("removeImage", ret'.trace[k].id, ret'.trace[k].image)
                    /\ ret'.trace[k - 2] = Ev("lingerLogBuffers", 0, ret'.trace[k].image)
                    /\ ret'.trace[k - 1].ev = "lingerImageArray"
                    /\ ret'.trace[k].image \in Range(subscriptions[ret'.trace[k].id].images)
                    /\ ret'.trace[k].image \notin Range(subscriptions'[ret'.trace[k].id].images)
                    /\ Count(m_lingeringLogBuffers',
                             LogBuffersLingerDefn(now, ret'.trace[k].image.logBuffers)) >= 1]_vars

\* onAvailableImage has called the handler and then stored the image.
C10_Witness ==
    /\ ret.op = "onAvailableImage"
    /\ Len(ret.trace) >= 2
    /\ ret.trace[1].ev = "onAvailableImageHandler"
    /\ ret.trace[2].ev = "addImage"
    /\ ret.trace[1].image \in Range(subscriptions[ret.trace[1].id].images)

\* C11: onOperationSuccess for an Awaiting subscription builds the
\* Subscription and keeps it in the record's cache slot, and no other
\* operation fills a cache slot; a findSubscription that finds the slot filled
\* returns that very instance, builds nothing, and leaves the slot empty with
\* the weak reference still on the instance.
C11_FirstFindReturnsCached ==
    [][\A i \in 1..Len(m_subscriptions) :
        LET state == m_subscriptions[i]
            id == state.m_registrationId
        IN /\ (ret'.op = "onOperationSuccess" /\ ret'.id = id
                 /\ state.m_status = AWAITING_MEDIA_DRIVER)
              => /\ m_subscriptions'[i].m_subscriptionCache = id
                 /\ m_subscriptions'[i].m_subscription = id
                 /\ id \notin DOMAIN subscriptions
                 /\ id \in DOMAIN subscriptions'
           /\ (state.m_subscriptionCache = 0 /\ i <= Len(m_subscriptions')
                 /\ m_subscriptions'[i].m_registrationId = id
                 /\ m_subscriptions'[i].m_subscriptionCache # 0)
              => ret'.op = "onOperationSuccess"
           /\ (ret'.op = "findSubscription" /\ ret'.id = id
                 /\ state.m_subscriptionCache # 0)
              => /\ ret'.ex = ""
                 /\ ret'.trace = <<>>
                 /\ ret'.result = state.m_subscriptionCache
                 /\ ret'.result \in DOMAIN subscriptions
                 /\ subscriptions' = [subscriptions EXCEPT ![ret'.result].held = TRUE]
                 /\ m_subscriptions'[i].m_subscriptionCache = 0
                 /\ m_subscriptions'[i].m_subscription = ret'.result]_vars

\* findSubscription has returned the cached Subscription and emptied the slot.
C11_Witness ==
    /\ ret.op = "findSubscription"
    /\ ret.result # 0
    /\ \E i \in 1..Len(m_subscriptions) :
          /\ m_subscriptions[i].m_registrationId = ret.id
          /\ m_subscriptions[i].m_subscriptionCache = 0
          /\ m_subscriptions[i].m_subscription = ret.result
          /\ ret.result \in DOMAIN subscriptions
          /\ subscriptions[ret.result].held

C13_RebuildOnce ==
    [][ret'.op = "findPublication" =>
        \A i \in 1..Len(m_publications) :
            LET state == m_publications[i]
            IN (state.m_registrationId = ret'.id
                  /\ state.m_status = REGISTERED_MEDIA_DRIVER)
               => IF state.m_publication \in DOMAIN publications
                  THEN /\ ret'.ex = ""
                       /\ ret'.result = state.m_publication
                       /\ ret'.trace = <<>>
                       /\ publications' = publications
                       /\ m_publications' = m_publications
                  ELSE /\ ret'.ex = ""
                       /\ CountEv(ret'.trace, "make_shared") = 1
                       /\ ret'.result \notin DOMAIN publications
                       /\ ret'.result \in DOMAIN publications'
                       /\ m_publications'[i].m_publication = ret'.result
                       /\ publications'[ret'.result].channel = state.m_channel
                       /\ publications'[ret'.result].registrationId = state.m_registrationId
                       /\ publications'[ret'.result].originalRegistrationId
                              = state.m_originalRegistrationId
                       /\ publications'[ret'.result].streamId = state.m_streamId
                       /\ publications'[ret'.result].sessionId = state.m_sessionId
                       /\ publications'[ret'.result].publicationLimit
                              = state.m_positionLimitCounterId
                       /\ publications'[ret'.result].buffers = state.m_buffers
                       /\ ~publications'[ret'.result].closed]_vars

\* A find has returned the live handle of a Registered record without
\* building one.
C13_Witness ==
    /\ ret.op = "findPublication"
    /\ ret.trace = <<>>
    /\ ret.result \in DOMAIN publications
    /\ \E i \in 1..Len(m_publications) :
          /\ m_publications[i].m_registrationId = ret.id
          /\ m_publications[i].m_status = REGISTERED_MEDIA_DRIVER
          /\ m_publications[i].m_publication = ret.result

\* C14 (as stated): onOperationSuccess for an Awaiting subscription calls the
\* subscription's available-image handler.
C14_SuccessFiresAvailableHandler ==
    [][\A i \in 1..Len(m_subscriptions) :
          (/\ ret'.op = "onOperationSuccess"
           /\ ret'.id = m_subscriptions[i].m_registrationId
           /\ m_subscriptions[i].m_status = AWAITING_MEDIA_DRIVER)
          => CountEv(ret'.trace, "onAvailableImageHandler") >= 1]_vars

\* C14 (amended): onOperationSuccess for an Awaiting subscription makes the
\* record Registered, builds the Subscription with no image, and then calls
\* the new-subscription handler once with the record's channel and stream and
\* the correlation id; it calls no available-image handler.
C14_SuccessFiresNewSubscriptionHandler ==
    [][\A i \in 1..Len(m_subscriptions) :
          (/\ ret'.op = "onOperationSuccess"
           /\ ret'.id = m_subscriptions[i].m_registrationId
           /\ m_subscriptions[i].m_status = AWAITING_MEDIA_DRIVER)
          => /\ ret'.trace = <<Ev("make_shared", ret'.id, NoImage),
                               Ev("onNewSubscriptionHandler", ret'.id, NoImage)>>
             /\ ret'.channel = m_subscriptions[i].m_channel
             /\ ret'.streamId = m_subscriptions[i].m_streamId
             /\ m_subscriptions'[i].m_status = REGISTERED_MEDIA_DRIVER
             /\ subscriptions'[ret'.id].images = <<>>]_vars

\* onOperationSuccess has registered a subscription and called the
\* new-subscription handler.
C14_Witness ==
    /\ ret.op = "onOperationSuccess"
    /\ CountEv(ret.trace, "onNewSubscriptionHandler") = 1
    /\ CountEv(ret.trace, "onAvailableImageHandler") = 0
    /\ ret.id \in DOMAIN subscriptions
    /\ subscriptions[ret.id].images = <<>>

\* ------------------------------------------- properties of the error log

\* The offsets of the entries a reader can see, that is, with a length.
Entries == {offset \in DOMAIN buffer : buffer[offset].length # 0}

\* C15 (as stated): whatever the interleaving of the recording threads, no
\* two elements of the observations array, and so no two entries of the log,
\* stand for the same error code and description.
C15_NoTwoEntriesForOneKey ==
    \A i, j \in 1..Len(observations) :
        /\ observations[i].error_code = observations[j].error_code
        /\ observations[i].description = observations[j].description
        => i = j

\* Every call of record so far was made with the error code and the
\* description of the first, and no call is under way.
OneKeyRecorded ==
    /\ Recording = {}
    /\ Len(calls) >= 1
    /\ \A i \in 1..Len(calls) :
          /\ calls[i].error_code = calls[1].error_code
          /\ calls[i].description = calls[1].description

\* C16: calls of record made one after the other with the same error code
\* and description all return 0 and leave one entry in the log: its
\* observation_count is the number of calls (2 after two calls), its
\* first_observation_timestamp is the clock value of the first call and its
\* last_observation_timestamp the clock value of the last, which is not
\* before the first.
C16_SameKeyOneEntry ==
    OneKeyRecorded =>
        /\ \A i \in 1..Len(calls) : calls[i].result = 0
        /\ Len(observations) = 1
        /\ num_observations = 1
        /\ Entries = {0}
        /\ EntryAt(buffer, 0).observation_count = Len(calls)
        /\ EntryAt(buffer, 0).first_observation_timestamp = calls[1].timestamp
        /\ EntryAt(buffer, 0).last_observation_timestamp = calls[Len(calls)].timestamp
        /\ EntryAt(buffer, 0).last_observation_timestamp
              >= EntryAt(buffer, 0).first_observation_timestamp

\* Two calls with the same key have returned, the second at a later clock
\* value than the first, and the entry counts 2.
C16_Witness ==
    /\ OneKeyRecorded
    /\ Len(calls) = 2
    /\ calls[1].timestamp < calls[2].timestamp
    /\ EntryAt(buffer, 0).observation_count = 2

\* The calls of record that returned 0.
Recorded == {i \in 1..Len(calls) : calls[i].result = 0}

\* The first call that was counted in the entry at offset.
FirstRecorded(offset) == Min({i \in Recorded : calls[i].offset = offset})

\* C17 (as stated): two calls of record are counted in the same entry exactly
\* when they have the same error code and the same description.
C17_KeyIsCodeAndDescription ==
    \A i, j \in Recorded :
        calls[i].offset = calls[j].offset
        <=> /\ calls[i].error_code = calls[j].error_code
            /\ calls[i].description = calls[j].description

\* C17 (amended): two calls of record are counted in the same entry exactly
\* when they have the same error code and descriptions that agree in their
\* first AERON_MAX_PATH characters, whatever their messages; the entry keeps
\* the text encoded from the first of them.
C17_KeyIsCodeAndDescriptionPrefix ==
    \A i, j \in Recorded :
        /\ calls[i].offset = calls[j].offset
           <=> /\ calls[i].error_code = calls[j].error_code
               /\ Prefix(calls[i].description, AERON_MAX_PATH)
                     = Prefix(calls[j].description, AERON_MAX_PATH)
        /\ LET first == calls[FirstRecorded(calls[i].offset)]
           IN EntryAt(buffer, calls[i].offset).text
                 = EncodedError(first.error_code, first.description, first.message)

\* Two calls whose descriptions differ after AERON_MAX_PATH characters, and
\* whose messages differ, were counted in one entry, and a call with another
\* description in a second entry.
C17_Witness ==
    /\ Len(calls) = 3
    /\ Recorded = {1, 2, 3}
    /\ calls[1].description = LongDescriptionA
    /\ calls[2].description = LongDescriptionB
    /\ calls[1].message # calls[2].message
    /\ calls[1].error_code = calls[2].error_code
    /\ calls[1].offset = calls[2].offset
    /\ calls[3].offset # calls[1].offset
    /\ EntryAt(buffer, calls[1].offset).observation_count = 2

\* Thread t is in a call of record whose key has no observation and whose
\* entry does not fit in what is left of the buffer: before new_observation
\* has tested for room, or after it has returned NULL.
NoRoomFor(t) ==
    \/ /\ pc[t] \in {"load_num_observations", "load_observations", "lock",
                     "new_observation"}
       /\ \A i \in 1..Len(observations) :
             ~(/\ observations[i].error_code = local[t].error_code
               /\ Prefix(observations[i].description, AERON_MAX_PATH)
                     = Prefix(local[t].description, AERON_MAX_PATH))
       /\ next_offset + AERON_ERROR_LOG_HEADER_LENGTH
             + Len(EncodedError(local[t].error_code, local[t].description,
                                local[t].message))
          > buffer_capacity
    \/ /\ pc[t] = "unlock"
       /\ local[t].observation = NoObservation

\* C18: from the call of record for a new key whose entry does not fit up to
\* its return, no step writes the buffer, next_offset, the observations array
\* or its count; the call goes on to return, and it returns -1.
C18_NoRoomLeavesLogUnchanged ==
    [][\A t \in Writers :
          NoRoomFor(t) \/ (pc[t] = "idle" /\ NoRoomFor(t)') =>
              /\ buffer' = buffer
              /\ next_offset' = next_offset
              /\ observations' = observations
              /\ num_observations' = num_observations
              /\ IF pc'[t] = "idle"
                 THEN /\ Len(calls') = Len(calls) + 1
                      /\ calls'[Len(calls')].result = -1
                      /\ calls'[Len(calls')].offset = -1
                 ELSE NoRoomFor(t)']_vars

\* A call for a new key has returned -1 and the log holds the one entry it
\* held before.
C18_Witness ==
    /\ Recording = {}
    /\ Len(calls) = 2
    /\ calls[1].result = 0
    /\ calls[2].result = -1
    /\ calls[2].error_code # calls[1].error_code
    /\ Entries = {0}
    /\ num_observations = 1
    /\ next_offset + AERON_ERROR_LOG_HEADER_LENGTH
          + Len(EncodedError(calls[2].error_code, calls[2].description, calls[2].message))
       > buffer_capacity

\* The entry at offset has its whole text and its first timestamp: the text
\* is as long as the length says, and the timestamp is a value of the clock,
\* which is never 0.
BodyWritten(offset, length) ==
    /\ Len(EntryAt(buffer, offset).text) = length - AERON_ERROR_LOG_HEADER_LENGTH
    /\ EntryAt(buffer, offset).first_observation_timestamp >= 1

\* C19: with threads recording while a read runs, an entry that has a length
\* has its text and its first_observation_timestamp written; so has the entry
\* whose length the reader has loaded, and what the reader function was
\* given is a whole text with a first timestamp.
C19_LengthAfterBody ==
    /\ \A offset \in Entries : BodyWritten(offset, buffer[offset].length)
    /\ reader.pc \in {"last_observation_timestamp", "reader"}
          => BodyWritten(reader.offset, reader.length)
    /\ \A k \in 1..Len(reader.delivered) :
          /\ Len(reader.delivered[k].error) = reader.delivered[k].error_length
          /\ reader.delivered[k].first_observation_timestamp >= 1

\* The reader has loaded the length of an entry whose writer is still inside
\* new_observation.
C19_Witness ==
    /\ reader.pc = "reader"
    /\ \E t \in Writers :
          /\ pc[t] = "linger_resource"
          /\ local[t].offset = reader.offset

\* The entries of the log last observed at since_timestamp or later, and the
\* k-th of them from offset 0.
EntriesSince(since_timestamp) ==
    {offset \in Entries : buffer[offset].last_observation_timestamp >= since_timestamp}

NthOffset(offsets, k) ==
    CHOOSE offset \in offsets : Cardinality({o \in offsets : o < offset}) = k - 1

\* C20: a read over a log no one is writing hands the reader function the
\* entries whose last_observation_timestamp is since_timestamp or later, each
\* once, in the order of their offsets and with their counts, timestamps and
\* text, and returns how many it handed over: all of the entries for a
\* since_timestamp of 0, and none, returning 0, for one after every
\* last_observation_timestamp.
C20_ReadDeliversEntriesSince ==
    [][reader.pc # "idle" /\ reader'.pc = "idle" =>
          LET since == reader'.since_timestamp
              wanted == EntriesSince(since)
          IN /\ reader'.returned = Cardinality(wanted)
             /\ Len(reader'.delivered) = Cardinality(wanted)
             /\ \A k \in 1..Len(reader'.delivered) :
                   LET offset == NthOffset(wanted, k)
                   IN reader'.delivered[k] =
                         [observation_count |-> buffer[offset].observation_count,
                          first_observation_timestamp |->
                              buffer[offset].first_observation_timestamp,
                          last_observation_timestamp |->
                              buffer[offset].last_observation_timestamp,
                          error |-> buffer[offset].text,
                          error_length |-> Len(buffer[offset].text)]
             /\ since = 0 => reader'.returned = Cardinality(Entries)
             /\ (\A offset \in Entries :
                    since > buffer[offset].last_observation_timestamp)
                   => reader'.returned = 0 /\ reader'.delivered = <<>>]_vars

\* A read of a log of two entries has returned 1: the entry last observed
\* at since_timestamp was handed over, the one before it was not.
C20_Witness ==
    /\ reader.pc = "idle"
    /\ reader.returned = 1
    /\ reader.since_timestamp = 2
    /\ reader.delivered[1].last_observation_timestamp = 2
    /\ Recording = {}
    /\ Cardinality(Entries) = 2
    /\ \E offset \in Entries : buffer[offset].last_observation_timestamp = 1

\* ------------------------------------------ properties of the ring buffer

IsPrefix(a, b) == Len(a) <= Len(b) /\ SubSeq(b, 1, Len(a)) = a

\* What the handler got of producer p's records, in the order it got them.
HandledOf(p) ==
    SelectSeq(consumer.handled, LAMBDA h : h.msg_type_id \div 100 = p)

\* Every producer has written its records.
AllWritten ==
    \A p \in Producers :
        Len(written[p]) = RecordsPerProducer /\ producers[p].pc = "idle"

\* C21: with the producers writing their records at once, calling write
\* again after a false, and the consumer reading, the handler always holds,
\* of each producer, the first of the records it has written, in the order
\* written, each once, and nothing else; and the time comes when it holds
\* all Cardinality(Producers) * RecordsPerProducer records for good.
C21_AllRecordsOnceInOrder ==
    /\ [](/\ \A p \in Producers : IsPrefix(HandledOf(p), written[p])
          /\ \A i \in 1..Len(consumer.handled) :
                consumer.handled[i].msg_type_id \div 100 \in Producers
          /\ \A i, j \in 1..Len(consumer.handled) :
                consumer.handled[i] = consumer.handled[j] => i = j)
    /\ <>[](/\ AllWritten
            /\ Len(consumer.handled) = Cardinality(Producers) * RecordsPerProducer
            /\ \A p \in Producers : HandledOf(p) = written[p])

\* All records are written and handled, those of the two producers mixed, and
\* a padding record was needed on the way: the tail has gone further than the
\* bytes of the records.
C21_Witness ==
    /\ AllWritten
    /\ consumer.pc = "idle"
    /\ head = tail
    /\ Len(consumer.handled) = Cardinality(Producers) * RecordsPerProducer
    /\ consumer.handled[1].msg_type_id = TypeOf(2, 1)
    /\ consumer.handled[2].msg_type_id = TypeOf(1, 1)
    /\ tail > RecordsPerProducer * (16 + 32)


\* A producer between its claim and its ordered store of record_length.
Writing(p) == producers[p].pc \in {"header", "payload", "record_length"}

\* The records a producer has finished writing.
Finished == UNION {{written[p][i] : i \in 1..Len(written[p])} : p \in Producers}

\* The message a record of the data region holds, as write was given it.
MessageIn(record) ==
    [msg_type_id |-> record.message_type_id, payload |-> record.payload,
     length |-> record.message_length]

\* The records a reader can see: a record_length that is not zero, and not
\* padding.
Observable ==
    {offset \in DOMAIN region :
        /\ region[offset].record_length # 0
        /\ region[offset].message_type_id # PADDING_MSG_TYPE_ID}

\* C22: under every interleaving of producers and consumer, a claimed slot has
\* record_length 0 until the ordered store that ends the write; a record with
\* a record_length that is not zero holds its type, its message length and its
\* whole payload, as does every record the handler is or was called with; and
\* a record whose write has ended is observable until it is consumed.
C22_ObservableIffWritten ==
    /\ \A p \in Producers :
          Writing(p) => RecordAt(producers[p].tail % capacity).record_length = 0
    /\ \A offset \in Observable :
          /\ MessageIn(region[offset]) \in Finished
          /\ Len(region[offset].payload) = region[offset].message_length
          /\ \A p \in Producers : Writing(p) => producers[p].tail % capacity # offset
    /\ consumer.pc = "handler" => ReadIndex \in Observable
    /\ \A i \in 1..Len(consumer.handled) : consumer.handled[i] \in Finished
    /\ \A m \in Finished :
          \/ \E i \in 1..Len(consumer.handled) : consumer.handled[i] = m
          \/ \E offset \in Observable : MessageIn(region[offset]) = m

\* The handler is about to be called with a record that has a payload while
\* a producer has copied the payload of the next record and not yet stored
\* its record_length.
C22_Witness ==
    /\ consumer.pc = "handler"
    /\ RecordAt(ReadIndex).message_length > 0
    /\ \E p \in Producers :
          /\ producers[p].pc = "record_length"
          /\ Len(producers[p].src) > 0
          /\ producers[p].tail % capacity = ReadIndex + RecordAt(ReadIndex).record_length

\* A call of write that finds too little room: it has passed the check of
\* its arguments, and tail - head + align(length + header_length, alignment)
\* is more than the capacity.
NoSpaceFor(p) ==
    /\ producers[p].pc \in {"head", "tail"}
    /\ tail - head + AERON_ALIGN(Len(producers[p].src) + HEADER_LENGTH, ALIGNMENT)
          > capacity

\* C23: a write that finds tail - head + align(length + header_length,
\* alignment) > capacity, the full buffer tail = head + capacity included,
\* returns false without an exception, and no step of it changes the tail.
C23_NoSpaceReturnsFalse ==
    [][\A p \in Producers :
          NoSpaceFor(p) =>
              /\ tail' = tail
              /\ IF producers'[p].pc = "idle"
                 THEN outcome' = Outcome("write", p, producers[p].msg_type_id,
                                         producers[p].src, FALSE, "")
                 ELSE NoSpaceFor(p)']_vars

\* write has returned false on a full buffer, the tail a whole capacity
\* ahead of the head.
C23_Witness ==
    /\ outcome.op = "write" /\ outcome.result = FALSE /\ outcome.ex = ""
    /\ producers[outcome.producer].pc = "idle"
    /\ tail = head + capacity
    /\ tail > 0

\* align(length + header_length, alignment) of a message.
Aligned(src) == AERON_ALIGN(Len(src) + HEADER_LENGTH, ALIGNMENT)

\* The record write stores for a message.
RecordOf(msg_type_id, src) ==
    [record_length |-> Aligned(src), message_type_id |-> msg_type_id,
     message_length |-> Len(src), payload |-> src]

\* The record at an offset once the step is taken.
StoredAt(offset) ==
    IF offset \in DOMAIN region' THEN region'[offset] ELSE ZeroRecord

\* The step on which write returns true.
Succeeds(p) == producers[p].pc = "record_length" /\ producers'[p].pc = "idle"

\* The record would run over the end of the data region where write was
\* called.
Wraps(p) == (producers[p].start % capacity) + Aligned(producers[p].src) > capacity

\* The step on which read returns, having been called with nothing but the
\* record of the last write between head and tail.
ReadsTheOneRecord ==
    /\ consumer.pc = "head" /\ consumer'.pc = "idle"
    /\ outcome.op = "write" /\ outcome.result = TRUE
    /\ consumer.head + Aligned(outcome.src) = tail

\* What that read does: one record handled, with the payload and the type
\* write was given, and the head stored equal to the tail.
DeliversTheOneRecord ==
    /\ outcome' = Outcome("read", 0, 0, <<>>, 1, "")
    /\ consumer'.handled =
          Append(SubSeq(consumer.handled, 1, Len(consumer.handled) - 1),
                 [msg_type_id |-> outcome.msg_type_id, payload |-> outcome.src,
                  length |-> Len(outcome.src)])
    /\ Len(consumer.handled) > 0
    /\ head' = tail

\* C24 as claimed: every write that returns true leaves the tail
\* align(length + header_length, alignment) after where it was on the call,
\* with record_length, message_type_id, message_length and payload stored at
\* the offset of the old tail; the read that follows delivers that payload
\* and type and stores head = tail.
C24_WriteAdvancesByAligned ==
    [][/\ \A p \in Producers :
            Succeeds(p) =>
                /\ tail' = producers[p].start + Aligned(producers[p].src)
                /\ StoredAt(producers[p].start % capacity) =
                      RecordOf(producers[p].msg_type_id, producers[p].src)
       /\ ReadsTheOneRecord => DeliversTheOneRecord]_vars

\* C24, amended: that holds of a write whose record does not run over the end
\* of the data region; one whose record would leaves the tail further on by
\* the padding that fills the region, and its record at offset 0.
C24_WriteAdvancesByAlignedAndPadding ==
    [][/\ \A p \in Producers :
            Succeeds(p) =>
                LET w == producers[p]
                    padding == IF Wraps(p) THEN ToEnd(w.start) ELSE 0
                IN /\ tail' = w.start + padding + Aligned(w.src)
                   /\ StoredAt((w.start + padding) % capacity) =
                         RecordOf(w.msg_type_id, w.src)
       /\ ReadsTheOneRecord => DeliversTheOneRecord]_vars

\* Eight bytes of type MSG_TYPE_ID written to the empty buffer of CAPACITY
\* bytes and read again.
C24_Witness ==
    /\ capacity = CAPACITY
    /\ outcome = Outcome("read", 0, 0, <<>>, 1, "")
    /\ consumer.handled = <<[msg_type_id |-> MSG_TYPE_ID, payload |-> Bytes(8, 65),
                             length |-> 8]>>
    /\ tail = AERON_ALIGN(8 + HEADER_LENGTH, ALIGNMENT)
    /\ head = tail

\* Arguments write has to reject: a length over max_message_length =
\* capacity / 8, or a msg_type_id that is not positive.
InvalidArguments(msg_type_id, src) ==
    Len(src) > capacity \div 8 \/ msg_type_id <= 0

\* C25: a call of write with length > capacity / 8 or msg_type_id <= 0 goes no
\* further than the check: no producer is ever past it with such arguments,
\* the call ends with IllegalArgumentException, and the step changes neither
\* the tail nor the data region; a call with valid arguments never ends with
\* the exception.
C25_InvalidArgumentsRejected ==
    [][/\ \A p \in Producers :
            producers'[p].pc # "idle" =>
                ~InvalidArguments(producers'[p].msg_type_id, producers'[p].src)
       /\ (outcome' # outcome /\ outcome'.op = "write") =>
              IF InvalidArguments(outcome'.msg_type_id, outcome'.src)
              THEN /\ outcome'.ex = "IllegalArgumentException"
                   /\ outcome'.result = FALSE
                   /\ tail' = tail
                   /\ region' = region
                   /\ producers' = producers
              ELSE outcome'.ex = ""]_vars

\* write of CAPACITY / 8 + 1 bytes has been rejected on a buffer that holds
\* a record.
C25_Witness ==
    /\ capacity = CAPACITY
    /\ outcome = Outcome("write", 1, MSG_TYPE_ID, Bytes(CAPACITY \div 8 + 1, 65), FALSE,
                         "IllegalArgumentException")
    /\ tail > head

\* A power of two: a positive number that no odd number but 1 divides.
NoOddDivisor(n) == n >= 1 /\ \A d \in 3..n : d % 2 = 1 => n % d # 0

\* C26: the constructor, given a region of a length that less the trailer is
\* not a power of two, fails with IllegalArgumentException and there is no
\* ring buffer; given one that is, it succeeds and the capacity is the length
\* of the region less the trailer. No ring buffer has another capacity.
C26_CapacityPowerOfTwo ==
    /\ [][(outcome' # outcome /\ outcome'.op = "construct") =>
             IF NoOddDivisor(outcome'.result)
             THEN outcome'.ex = "" /\ capacity' = outcome'.result
             ELSE outcome'.ex = "IllegalArgumentException" /\ capacity' = 0]_vars
    /\ [](capacity # 0 =>
             /\ NoOddDivisor(capacity)
             /\ capacity + TRAILER_LENGTH \in BufferSizes)

\* The constructor has failed on a region of CAPACITY - 1 bytes and the
\* trailer.
C26_Witness ==
    /\ outcome = Outcome("construct", 0, 0, <<>>, CAPACITY - 1,
                         "IllegalArgumentException")
    /\ capacity = 0

\* ------------------------------------------ properties of the driver context

\* The lengths of the five regions of the CnC file, as the context has them.
RegionLengths(c) ==
    {c.to_driver_buffer_length, c.to_clients_buffer_length,
     c.counters_metadata_buffer_length, c.counters_values_buffer_length,
     c.error_buffer_length}

\* C27: in every context that aeron_driver_context_init makes from the
\* defaults and the environment, the to-driver and to-clients buffer lengths
\* are a power of two plus the trailer length, and the length of every region
\* is a multiple of the record alignment of the ring buffer.
C27_RegionLengthsWellFormed ==
    context # NULL =>
        /\ IsPowerOfTwo(context[1].to_driver_buffer_length - AERON_RB_TRAILER_LENGTH)
        /\ IsPowerOfTwo(context[1].to_clients_buffer_length
                            - AERON_BROADCAST_BUFFER_TRAILER_LENGTH)
        /\ \A length \in RegionLengths(context[1]) : length % ALIGNMENT = 0

\* C28: the to-driver buffer starts where the metadata header, a multiple of
\* two cache lines that holds the metadata, ends; each of the to-clients
\* buffer, the counter metadata, the counter values and the error log starts
\* where the region before it ends; and when the metadata holds the lengths
\* of the context, the error log ends at aeron_cnc_length, which is the
\* header and the five lengths of the context.
C28_RegionsContiguous ==
    answer.op = "cnc_layout" =>
        LET m == metadata[1]
            c == context[1]
            start == answer.result
        IN /\ start[1] % (2 * AERON_CACHE_LINE_LENGTH) = 0
           /\ start[1] >= SizeofCncMetadata
           /\ start[1] - SizeofCncMetadata < 2 * AERON_CACHE_LINE_LENGTH
           /\ start[2] = start[1] + m.to_driver_buffer_length
           /\ start[3] = start[2] + m.to_clients_buffer_length
           /\ start[4] = start[3] + m.counter_metadata_buffer_length
           /\ start[5] = start[4] + m.counter_values_buffer_length
           /\ start[6] = start[1] + c.to_driver_buffer_length + c.to_clients_buffer_length
                            + c.counters_metadata_buffer_length
                            + c.counters_values_buffer_length + c.error_buffer_length
           /\ (/\ m.to_driver_buffer_length = c.to_driver_buffer_length
               /\ m.to_clients_buffer_length = c.to_clients_buffer_length
               /\ m.counter_metadata_buffer_length = c.counters_metadata_buffer_length
               /\ m.counter_values_buffer_length = c.counters_values_buffer_length
               /\ m.error_log_buffer_length = c.error_buffer_length)
                  => start[5] + m.error_log_buffer_length = start[6]

\* The CnC file has been laid out for lengths set from the environment, all
\* five different.
C28_Witness ==
    /\ answer.op = "cnc_layout"
    /\ context[1].to_driver_buffer_length = 5000
    /\ context[1].to_clients_buffer_length = 1024 + AERON_BROADCAST_BUFFER_TRAILER_LENGTH
    /\ context[1].counters_values_buffer_length = 4096
    /\ context[1].error_buffer_length = 1025
    /\ metadata[1].error_log_buffer_length = 1025
    /\ answer.result[6] = answer.result[5] + 1025

\* C29: with ipc_publication_window_length 0, the window is half the term
\* length or the ceiling below it; with another value, the window is no more
\* than that value.
C29_IpcWindowHalfTermOrConfigured ==
    answer.op = "ipc_publication_term_window_length" =>
        LET term_length == answer.args[1]
            configured == context[1].ipc_publication_window_length
            window == answer.result[1]
        IN IF configured = 0
           THEN 0 < window /\ window <= term_length \div 2
           ELSE window <= configured

\* C30: aeron_config_parse_bool gives true for "1", "on" and "true", false for
\* "0", "off" and "false", and the default for every other string and for
\* NULL.
C30_ParseBoolExactTokens ==
    answer.op = "config_parse_bool" =>
        LET str == answer.args[1]
            def == answer.args[2]
        IN answer.result[1] =
              IF str \in {<<"1">>, <<"on">>, <<"true">>} THEN TRUE
              ELSE IF str \in {<<"0">>, <<"off">>, <<"false">>} THEN FALSE
              ELSE def

\* C31: the send_to_sm_poll_ratio of the context is at least 1 and is the
\* value of AERON_SEND_TO_STATUS_POLL_RATIO clamped to [1, INT32_MAX]: the
\* default 4 when the variable is unset, 256 when it is "256".
C31_PollRatioIsClampedValue ==
    context # NULL =>
        LET str == environment["AERON_SEND_TO_STATUS_POLL_RATIO_ENV_VAR"]
            ratio == context[1].send_to_sm_poll_ratio
        IN /\ ratio >= 1
           /\ ratio <= INT32_MAX
           /\ str = NULL => ratio = 4
           /\ str = <<"256">> => ratio = 256

\* C32: a user callback may call add_* or release_* on the conductor from
\* inside the operation that invoked it, and once the call has returned the
\* enclosing operation never goes on with an iterator into the table that the
\* call has invalidated (an entry it erased, moved, or inserted before).
C32_ReentrantCallKeepsIterators ==
    \A k \in 1..Len(ret.trace) : ret.trace[k].ev # "invalidIterator"

\* The record of a registration id in a table is Errored now and still in the
\* table after the step, and is Errored then.
StaysErrored(table, after) ==
    \A id \in RegistrationIds :
        LET it == FindByRegistrationId(table, id)
            then == FindByRegistrationId(after, id)
        IN (it # 0 /\ table[it].m_status = ERRORED_MEDIA_DRIVER /\ then # 0)
              => after[then].m_status = ERRORED_MEDIA_DRIVER

\* C33: an error response is terminal: a record that onErrorResponse has set
\* to Errored stays Errored for as long as it is in its table, whatever event
\* of the driver comes for the same id afterwards.
C33_ErroredStaysErrored ==
    [][/\ StaysErrored(m_publications, m_publications')
       /\ StaysErrored(m_exclusivePublications, m_exclusivePublications')
       /\ StaysErrored(m_subscriptions, m_subscriptions')]_vars

\* The places an image with the correlation id is stored at: a live
\* Subscription and an index of its image array.
StoredImages(correlationId) ==
    {<<h, k>> \in (DOMAIN subscriptions) \X (1..MaxRegistrations) :
        /\ k <= Len(subscriptions[h].images)
        /\ subscriptions[h].images[k].correlationId = correlationId}

\* C34: in every reachable state a correlation id identifies at most one
\* stored image of the conductor: no subscription holds two images with one
\* correlation id, and no two subscriptions hold an image with the same
\* correlation id, whatever onAvailableImage events the driver has sent.
C34_CorrelationIdIdentifiesOneImage ==
    \A c \in ImageCorrelationIds : Cardinality(StoredImages(c)) <= 1

\* C35: onOperationSuccess(id) acts only on a subscription that is Awaiting:
\* it makes the record Registered, builds one Subscription that the record's
\* cache slot holds and its weak reference points to, and calls the
\* new-subscription handler once; for an id that is unknown, or whose record
\* is Errored or already Registered (a repeated success among them), it
\* changes no record, replaces no handle and calls no handler.
C35_SuccessActsOnAwaitingOnly ==
    [][ret'.op = "onOperationSuccess" =>
        LET it == FindByRegistrationId(m_subscriptions, ret'.id)
        IN IF it # 0 /\ m_subscriptions[it].m_status = AWAITING_MEDIA_DRIVER
           THEN /\ Len(m_subscriptions') = Len(m_subscriptions)
                /\ m_subscriptions'[it].m_status = REGISTERED_MEDIA_DRIVER
                /\ m_subscriptions'[it].m_subscriptionCache = ret'.id
                /\ m_subscriptions'[it].m_subscription = ret'.id
                /\ \A j \in 1..Len(m_subscriptions) :
                      j # it => m_subscriptions'[j] = m_subscriptions[j]
                /\ ret'.id \notin DOMAIN subscriptions
                /\ DOMAIN subscriptions' = DOMAIN subscriptions \cup {ret'.id}
                /\ \A h \in DOMAIN subscriptions : subscriptions'[h] = subscriptions[h]
                /\ CountEv(ret'.trace, "make_shared") = 1
                /\ CountEv(ret'.trace, "onNewSubscriptionHandler") = 1
                /\ Len(ret'.trace) = 2
           ELSE /\ ret'.trace = <<>>
                /\ m_subscriptions' = m_subscriptions
                /\ subscriptions' = subscriptions
                /\ m_publications' = m_publications
                /\ m_exclusivePublications' = m_exclusivePublications]_vars

\* onOperationSuccess has come for a subscription that was Registered or
\* Errored and has done nothing.
C35_Witness ==
    /\ ret.op = "onOperationSuccess"
    /\ ret.trace = <<>>
    /\ \E i, j \in 1..Len(m_subscriptions) :
          /\ m_subscriptions[i].m_registrationId = ret.id
          /\ m_subscriptions[i].m_status = ERRORED_MEDIA_DRIVER
          /\ m_subscriptions[j].m_status = REGISTERED_MEDIA_DRIVER
          /\ m_subscriptions[j].m_subscription \in DOMAIN subscriptions

\* The positions of the events of a name in a trace.
Positions(trace, name) == {k \in 1..Len(trace) : trace[k].ev = name}

\* Every event of the first name comes before every event of the second.
AllBefore(trace, first, second) ==
    \A j \in Positions(trace, first), k \in Positions(trace, second) : j < k

RegisteredIds ==
    {m_publications[i].m_registrationId : i \in 1..Len(m_publications)}
      \cup {m_exclusivePublications[i].m_registrationId :
                i \in 1..Len(m_exclusivePublications)}
      \cup {m_subscriptions[i].m_registrationId : i \in 1..Len(m_subscriptions)}

\* The step appends to the table one record, Awaiting, for the channel, the
\* stream and the registration id the call returns, and sends the one command.
AppendsOne(table, after, command) ==
    /\ Len(after) = Len(table) + 1
    /\ SubSeq(after, 1, Len(table)) = table
    /\ after[Len(after)].m_registrationId = ret'.result
    /\ after[Len(after)].m_channel = ret'.channel
    /\ after[Len(after)].m_streamId = ret'.streamId
    /\ after[Len(after)].m_status = AWAITING_MEDIA_DRIVER
    /\ ret'.trace = <<Ev(command, ret'.result, NoImage)>>
    /\ ret'.result \notin RegisteredIds

\* C37: addExclusivePublication and addSubscription never look for a record
\* of the same channel and stream: every call that passes the liveness check
\* (the one way it fails) sends one command to the driver, appends one
\* Awaiting record and returns a registration id that no record of any table
\* has; a call that fails changes nothing.
C37_AddsNeverDeduplicate ==
    [][/\ ret'.op = "addExclusivePublication" =>
            /\ m_publications' = m_publications
            /\ m_subscriptions' = m_subscriptions
            /\ IF ret'.ex = ""
               THEN AppendsOne(m_exclusivePublications, m_exclusivePublications',
                               "AddExclusivePublication")
               ELSE /\ ~m_driverActive
                    /\ ret'.trace = <<>>
                    /\ m_exclusivePublications' = m_exclusivePublications
       /\ ret'.op = "addSubscription" =>
            /\ m_publications' = m_publications
            /\ m_exclusivePublications' = m_exclusivePublications
            /\ IF ret'.ex = ""
               THEN AppendsOne(m_subscriptions, m_subscriptions', "AddSubscription")
               ELSE /\ ~m_driverActive
                    /\ ret'.trace = <<>>
                    /\ m_subscriptions' = m_subscriptions]_vars

\* addExclusivePublication has been called for the channel and stream of a
\* record of the table and has added a second record with another id.
C37_Witness ==
    /\ ret.op = "addExclusivePublication"
    /\ ret.ex = ""
    /\ \E i, j \in 1..Len(m_exclusivePublications) :
          /\ i < j
          /\ m_exclusivePublications[j].m_registrationId = ret.result
          /\ m_exclusivePublications[i].m_channel = m_exclusivePublications[j].m_channel
          /\ m_exclusivePublications[i].m_streamId = m_exclusivePublications[j].m_streamId
          /\ m_exclusivePublications[i].m_registrationId # ret.result

\* The sum of observation_count over the entries at the offsets.
RECURSIVE ObservationCountOver(_)
ObservationCountOver(offsets) ==
    IF offsets = {} THEN 0
    ELSE LET offset == CHOOSE o \in offsets : TRUE
         IN buffer[offset].observation_count + ObservationCountOver(offsets \ {offset})

\* C38: observations are never lost: whenever no call of record is under way,
\* whatever the interleaving of the calls there were, every call that returned
\* 0 was counted in an entry of the log, the observation_count of each entry
\* is the number of those calls counted in it, and so the counts of all the
\* entries add up to the number of calls that returned 0.
C38_CountsNeverLost ==
    Recording = {} =>
        /\ \A i \in Recorded : calls[i].offset \in Entries
        /\ \A offset \in Entries :
              buffer[offset].observation_count
                  = Cardinality({i \in Recorded : calls[i].offset = offset})
        /\ ObservationCountOver(Entries) = Cardinality(Recorded)

\* Three calls have returned 0, two of them for one error code made by
\* different threads at once and counted in two entries, and the third
\* counted with one of them.
C38_Witness ==
    /\ Recording = {}
    /\ Cardinality(Recorded) = 3
    /\ ObservationCountOver(Entries) = 3
    /\ \E i, j \in Recorded :
          /\ calls[i].thread # calls[j].thread
          /\ calls[i].error_code = calls[j].error_code
          /\ calls[i].offset # calls[j].offset
    /\ \E offset \in Entries : buffer[offset].observation_count = 2

\* The entries no call of record under way has resolved to or is writing.
Settled ==
    {offset \in Entries :
        \A t \in Recording : local[t].observation.offset # offset
                                /\ local[t].offset # offset}

\* C39: with a clock that never goes back and any interleaving of the calls
\* of record, an entry that no call under way is working on has a
\* last_observation_timestamp no earlier than its first_observation_timestamp,
\* and no step makes the last_observation_timestamp of an entry earlier than
\* it was.
C39_LastNotBeforeFirst ==
    /\ [](\A offset \in Settled :
            buffer[offset].last_observation_timestamp
                >= buffer[offset].first_observation_timestamp)
    /\ [][\A offset \in Entries :
            EntryAt(buffer', offset).last_observation_timestamp
                >= buffer[offset].last_observation_timestamp]_vars

\* C40: every entry a reader running at the same time as the recording
\* threads can see, that is, every entry with a length, has an
\* observation_count of at least 1 and a last_observation_timestamp a call of
\* record has stored; the reader function is never handed an entry with an
\* observation_count of 0, and the read never steps over an entry because its
\* last_observation_timestamp has not been stored yet.
C40_VisibleEntryIsCounted ==
    /\ [](\A offset \in Entries :
            /\ buffer[offset].observation_count >= 1
            /\ buffer[offset].last_observation_timestamp >= 1)
    /\ [](\A k \in 1..Len(reader.delivered) :
            /\ reader.delivered[k].observation_count >= 1
            /\ reader.delivered[k].last_observation_timestamp >= 1)
    /\ [][(reader.pc = "last_observation_timestamp" /\ reader'.pc = "length")
            => EntryAt(buffer, reader.offset).last_observation_timestamp >= 1]_vars

====
